---- MODULE Spec2Model ----
(***************************************************************************)
(* A model of the musli serialization core: the byte readers               *)
(* (musli-binary-common), the integer codecs (continuation, zig-zag), the  *)
(* storage encoder (musli-storage), the binary-tagged decoder (musli-wire) *)
(* and the network address impls (musli).                                  *)
(*                                                                         *)
(* Each component has its own specification (SpecReader, SpecInt, SpecNet, *)
(* SpecWire); the variables of the components a specification does not     *)
(* drive stay at their idle value.                                         *)
(***************************************************************************)
EXTENDS Integers, Sequences, FiniteSets, TLC

VARIABLES
    slice,      \* reader: the underlying &[u8], the bytes not yet consumed
    pos,        \* reader: WithPosition.pos
    remaining,  \* reader: Limit.remaining
    rd0,        \* reader: what Init chose: [data, limit]
    last,       \* reader: the most recent call: [op, n, ok, out, pos0, rem0, len0]
    int_in,     \* integer codec: the values handed to the encoder
    int_buf,    \* integer codec: the writer / reader buffer
    int_out,    \* integer codec: the values decoded so far
    int_pc,     \* integer codec: position of the test driver
    net_in,     \* net: the address value being round-tripped
    net_wire,   \* net: what Encode produced
    net_out,    \* net: what Decode returned
    net_pc,     \* net: position of the round-trip driver
    w_in,       \* wire: the scenario chosen by Init
    w_reader,   \* wire: the reader of the WireDecoder (bytes left, pos)
    w_dec,      \* wire: the sub-decoder state (RemainingWireDecoder)
    w_res,      \* wire: the result of the last decoder call
    w_pc,       \* wire: position of the decode driver
    j_in,       \* json: the scenario chosen by Init (input text, target type, build)
    j_p,        \* json: the parser (text, pos)
    j_res,      \* json: the result of the last call
    j_pc,       \* json: position of the driver
    b_in,       \* storage bytes: the method called and its argument
    b_out,      \* storage bytes: the writer's buffer and the method's result
    b_pc,       \* storage bytes: position of the driver
    cx,         \* context: the AllocContext (mark, errors, path, include_type)
    cx_g        \* context: the calls made so far (history of the driver)

vars == << slice, pos, remaining, rd0, last,
           int_in, int_buf, int_out, int_pc,
           net_in, net_wire, net_out, net_pc,
           w_in, w_reader, w_dec, w_res, w_pc,
           j_in, j_p, j_res, j_pc,
           b_in, b_out, b_pc,
           cx, cx_g >>

rdVars  == << slice, pos, remaining, rd0, last >>
intVars == << int_in, int_buf, int_out, int_pc >>
netVars == << net_in, net_wire, net_out, net_pc >>
wVars   == << w_in, w_reader, w_dec, w_res, w_pc >>
jVars   == << j_in, j_p, j_res, j_pc >>
bVars   == << b_in, b_out, b_pc >>
cVars   == << cx, cx_g >>

\* Idle values of the components a specification does not drive.
RdIdle  == /\ slice = << >> /\ pos = 0 /\ remaining = 0
           /\ rd0 = [data |-> << >>, limit |-> 0]
           /\ last = [op |-> "idle"]
IntIdle == /\ int_in = [mode |-> "idle"] /\ int_buf = [out |-> << >>, data |-> << >>]
           /\ int_out = << >> /\ int_pc = "idle"
NetIdle == /\ net_in = [ty |-> "idle"] /\ net_wire = [kind |-> "idle"]
           /\ net_out = [ok |-> FALSE] /\ net_pc = "idle"
WIdle   == /\ w_in = [name |-> "idle"] /\ w_reader = [s |-> << >>, pos |-> 0]
           /\ w_dec = [remaining |-> 0] /\ w_res = [ok |-> FALSE] /\ w_pc = "idle"
JIdle   == /\ j_in = [name |-> "idle"] /\ j_p = [s |-> << >>, pos |-> 0]
           /\ j_res = [ok |-> FALSE] /\ j_pc = "idle"
BIdle   == /\ b_in = [slices |-> << >>] /\ b_out = [name |-> "idle"] /\ b_pc = "idle"
CIdle   == /\ cx = [mark |-> 0] /\ cx_g = [calls |-> 0]

\* ------------------------------------------------------------------------
\* Bounds of the model.
MaxData  == 4   \* longest underlying slice handed to a reader
MaxLimit == 3   \* largest budget L of limit(L)
MaxN     == 3   \* largest byte count n of one reader call

\* ------------------------------------------------------------------------
\* Sequence helpers.
Drop(s, n) == SubSeq(s, n + 1, Len(s))
Take(s, n) == SubSeq(s, 1, n)

\* ------------------------------------------------------------------------
\* musli-binary-common/src/reader.rs
\* ------------------------------------------------------------------------

\* A reader call returns Err (ok = FALSE) or Ok with the bytes read (out); r is
\* the reader after the call.

\* impl Reader for &[u8]: skip
SliceSkip(s, n) ==
    IF Len(s) < n
    THEN [ok |-> FALSE, r |-> s, out |-> << >>]
    ELSE [ok |-> TRUE, r |-> Drop(s, n), out |-> << >>]

\* impl Reader for &[u8]: read_bytes
SliceReadBytes(s, n) ==
    IF Len(s) < n
    THEN [ok |-> FALSE, r |-> s, out |-> << >>]
    ELSE [ok |-> TRUE, r |-> Drop(s, n), out |-> Take(s, n)]

\* impl Reader for &[u8]: read(buf), buf.len() = n
SliceRead(s, n) ==
    IF Len(s) < n
    THEN [ok |-> FALSE, r |-> s, out |-> << >>]
    ELSE [ok |-> TRUE, r |-> Drop(s, n), out |-> Take(s, n)]

\* Reader::read_array (default method): read_bytes(N) copied into an array
SliceReadArray(s, n) == SliceReadBytes(s, n)

\* Reader::read_byte (default method): read_array::<1>()
SliceReadByte(s) == SliceReadArray(s, 1)

\* The underlying reader's call by name.
SliceCall(op, s, n) ==
    CASE op = "skip"       -> SliceSkip(s, n)
      [] op = "read_bytes" -> SliceReadBytes(s, n)
      [] op = "read"       -> SliceRead(s, n)
      [] op = "read_byte"  -> SliceReadByte(s)
      [] op = "read_array" -> SliceReadArray(s, n)

\* The byte count a call asks for (read_byte asks for one byte).
Asked(op, n) == IF op = "read_byte" THEN 1 ELSE n

\* WithPosition<R>, p = [pos, s]. Every method calls the wrapped reader first
\* (the ? returns on Err) and adds to pos afterwards.
WithPositionSkipBug(p, n) ==
    LET u == SliceSkip(p.s, n)
    IN  [ok |-> u.ok, out |-> u.out, r |-> [pos |-> p.pos + n, s |-> u.r]]

WithPositionSkip(p, n) ==
    LET u == SliceSkip(p.s, n)
    IN  IF ~u.ok THEN [ok |-> FALSE, out |-> << >>, r |-> [pos |-> p.pos, s |-> u.r]]
        ELSE [ok |-> TRUE, out |-> u.out, r |-> [pos |-> p.pos + n, s |-> u.r]]

WithPositionReadBytes(p, n) ==
    LET u == SliceReadBytes(p.s, n)
    IN  IF ~u.ok THEN [ok |-> FALSE, out |-> << >>, r |-> [pos |-> p.pos, s |-> u.r]]
        ELSE [ok |-> TRUE, out |-> u.out, r |-> [pos |-> p.pos + Len(u.out), s |-> u.r]]

WithPositionRead(p, n) ==
    LET u == SliceRead(p.s, n)
    IN  IF ~u.ok THEN [ok |-> FALSE, out |-> << >>, r |-> [pos |-> p.pos, s |-> u.r]]
        ELSE [ok |-> TRUE, out |-> u.out, r |-> [pos |-> p.pos + n, s |-> u.r]]

WithPositionReadByte(p) ==
    LET u == SliceReadByte(p.s)
    IN  IF ~u.ok THEN [ok |-> FALSE, out |-> << >>, r |-> [pos |-> p.pos, s |-> u.r]]
        ELSE [ok |-> TRUE, out |-> u.out, r |-> [pos |-> p.pos + 1, s |-> u.r]]

WithPositionReadArray(p, n) ==
    LET u == SliceReadArray(p.s, n)
    IN  IF ~u.ok THEN [ok |-> FALSE, out |-> << >>, r |-> [pos |-> p.pos, s |-> u.r]]
        ELSE [ok |-> TRUE, out |-> u.out, r |-> [pos |-> p.pos + n, s |-> u.r]]

WithPositionCall(op, p, n) ==
    CASE op = "skip"       -> WithPositionSkip(p, n)
      [] op = "read_bytes" -> WithPositionReadBytes(p, n)
      [] op = "read"       -> WithPositionRead(p, n)
      [] op = "read_byte"  -> WithPositionReadByte(p)
      [] op = "read_array" -> WithPositionReadArray(p, n)

\* Limit::bounds_check: remaining.checked_sub(n)
LimitBoundsCheckBug(rem, n) ==
    IF rem >= n THEN [ok |-> TRUE, remaining |-> rem - n]
    ELSE [ok |-> TRUE, remaining |-> 0]

LimitBoundsCheck(rem, n) ==
    IF rem >= n THEN [ok |-> TRUE, remaining |-> rem - n]
    ELSE [ok |-> FALSE, remaining |-> rem]

\* impl Reader for Limit<R>, l = [remaining, reader]: bounds_check(n)? and then
\* the wrapped reader's method, whose result is returned as it is.
LimitCall(op, l, n) ==
    LET b == LimitBoundsCheck(l.remaining, Asked(op, n))
    IN  IF ~b.ok
        THEN [ok |-> FALSE, out |-> << >>, r |-> l]
        ELSE LET u == WithPositionCall(op, l.reader, n)
             IN  [ok |-> u.ok, out |-> u.out,
                  r |-> [remaining |-> b.remaining, reader |-> u.r]]

\* ------------------------------------------------------------------------
\* The reader driver: a slice wrapped as slice.with_position().limit(L), and
\* any sequence of calls on it.

ReaderOps == {"skip", "read_bytes", "read", "read_byte", "read_array"}

\* The slices handed to the reader: <<1>>, <<1, 2>>, ... (the contents do not
\* steer any reader).
DataOf(n) == [i \in 1..n |-> i]

InitReader ==
    /\ \E n \in 0..MaxData, L \in 0..MaxLimit :
          /\ rd0 = [data |-> DataOf(n), limit |-> L]
          /\ slice = DataOf(n)
          /\ remaining = L
    /\ pos = 0
    /\ last = [op |-> "new", n |-> 0, ok |-> TRUE, out |-> << >>,
               pos0 |-> 0, rem0 |-> remaining, len0 |-> Len(slice)]
    /\ IntIdle /\ NetIdle /\ WIdle /\ JIdle /\ BIdle /\ CIdle

\* The Limit as the driver holds it, and the call op(n) on it.
TheLimit == [remaining |-> remaining, reader |-> [pos |-> pos, s |-> slice]]

LastOf(op, n, res) ==
    [op |-> op, n |-> Asked(op, n), ok |-> res.ok, out |-> res.out,
     pos0 |-> pos, rem0 |-> remaining, len0 |-> Len(slice)]

Skip ==
    \E n \in 0..MaxN :
        LET res == LimitCall("skip", TheLimit, n)
        IN  /\ remaining' = res.r.remaining
            /\ pos' = res.r.reader.pos
            /\ slice' = res.r.reader.s
            /\ last' = LastOf("skip", n, res)
            /\ UNCHANGED << rd0, intVars, netVars, wVars, jVars, bVars, cVars >>

ReadBytes ==
    \E n \in 0..MaxN :
        LET res == LimitCall("read_bytes", TheLimit, n)
        IN  /\ remaining' = res.r.remaining
            /\ pos' = res.r.reader.pos
            /\ slice' = res.r.reader.s
            /\ last' = LastOf("read_bytes", n, res)
            /\ UNCHANGED << rd0, intVars, netVars, wVars, jVars, bVars, cVars >>

Read ==
    \E n \in 0..MaxN :
        LET res == LimitCall("read", TheLimit, n)
        IN  /\ remaining' = res.r.remaining
            /\ pos' = res.r.reader.pos
            /\ slice' = res.r.reader.s
            /\ last' = LastOf("read", n, res)
            /\ UNCHANGED << rd0, intVars, netVars, wVars, jVars, bVars, cVars >>

ReadByte ==
    LET res == LimitCall("read_byte", TheLimit, 1)
    IN  /\ remaining' = res.r.remaining
        /\ pos' = res.r.reader.pos
        /\ slice' = res.r.reader.s
        /\ last' = LastOf("read_byte", 1, res)
        /\ UNCHANGED << rd0, intVars, netVars, wVars, jVars, bVars, cVars >>

ReadArray ==
    \E n \in 0..MaxN :
        LET res == LimitCall("read_array", TheLimit, n)
        IN  /\ remaining' = res.r.remaining
            /\ pos' = res.r.reader.pos
            /\ slice' = res.r.reader.s
            /\ last' = LastOf("read_array", n, res)
            /\ UNCHANGED << rd0, intVars, netVars, wVars, jVars, bVars, cVars >>

NextReader == Skip \/ ReadBytes \/ Read \/ ReadByte \/ ReadArray

SpecReader == InitReader /\ [][NextReader]_vars

\* Bytes consumed from the underlying slice so far.
Consumed == Len(rd0.data) - Len(slice)

\* ------------------------------------------------------------------------
\* The integer codecs: int::continuation, int::zigzag, and the Variable
\* integer encoding of musli-storage/src/integer_encoding.rs
\* ------------------------------------------------------------------------

Pow2(n) == 2 ^ n

\* The integer types of the model and their widths. usize and isize are the
\* platform's width, which is 16 bits here (a 16-bit target).
UnsignedTypes == {"u8", "u16", "usize"}
SignedTypes   == {"i8", "i16", "isize"}
Bits(ty) ==
    CASE ty \in {"u8", "i8"}       -> 8
      [] ty \in {"u16", "i16"}     -> 16
      [] ty \in {"usize", "isize"} -> 16

\* `as` casts between a signed type and the unsigned type of its width.
AsUnsigned(x, w) == x % Pow2(w)
AsSigned(u, w)   == IF u >= Pow2(w - 1) THEN u - Pow2(w) ELSE u

\* Bitwise exclusive or of two naturals.
RECURSIVE BitXor(_, _)
BitXor(a, b) ==
    IF a = 0 THEN b
    ELSE IF b = 0 THEN a
    ELSE ((a + b) % 2) + 2 * BitXor(a \div 2, b \div 2)

\* zigzag::encode: (x << 1) ^ (x >> (BITS - 1)), as the unsigned type.
ZigEncodeNoSign(x, w) == (2 * AsUnsigned(x, w)) % Pow2(w)

ZigEncode(x, w) ==
    BitXor((2 * AsUnsigned(x, w)) % Pow2(w),
           IF x < 0 THEN Pow2(w) - 1 ELSE 0)

\* zigzag::decode: (u >> 1) ^ -(u & 1), as the signed type.
ZigDecode(u, w) ==
    AsSigned(BitXor(u \div 2, IF u % 2 = 1 THEN Pow2(w) - 1 ELSE 0), w)

\* continuation::encode: seven bits at a time, least significant first, bit 7
\* set on every byte but the last.
RECURSIVE ContEncodeBigEndian(_)
ContEncodeBigEndian(u) ==
    IF u < 128 THEN << u >>
    ELSE ContEncodeBigEndian(u \div 128) \o << (u % 128) + 128 >>

RECURSIVE ContEncode(_)
ContEncode(u) ==
    IF u < 128 THEN << u >>
    ELSE << (u % 128) + 128 >> \o ContEncode(u \div 128)

\* continuation::decode into a type of w bits, from the reader s. Reads until
\* a byte without bit 7; a group beyond the width is an overflow error, a
\* missing byte an underflow error. r is the reader afterwards.
RECURSIVE ContDecodeLoop(_, _, _, _)
ContDecodeLoop(s, value, shift, w) ==
    IF shift + 7 >= w THEN [ok |-> FALSE, value |-> 0, r |-> s]
    ELSE LET rb == SliceReadByte(s)
         IN  IF ~rb.ok THEN [ok |-> FALSE, value |-> 0, r |-> rb.r]
             ELSE LET b == rb.out[1]
                      v == (value + (b % 128) * Pow2(shift + 7)) % Pow2(w)
                  IN  IF b >= 128 THEN ContDecodeLoop(rb.r, v, shift + 7, w)
                      ELSE [ok |-> TRUE, value |-> v, r |-> rb.r]

ContDecode(s, w) ==
    LET rb == SliceReadByte(s)
    IN  IF ~rb.ok THEN [ok |-> FALSE, value |-> 0, r |-> rb.r]
        ELSE LET b == rb.out[1]
             IN  IF b < 128 THEN [ok |-> TRUE, value |-> b, r |-> rb.r]
                 ELSE ContDecodeLoop(rb.r, b % 128, 0, w)

\* impl IntegerEncoding for Variable
VariableEncodeUnsignedBigEndian(value) == ContEncodeBigEndian(value)

VariableEncodeUnsigned(value) == ContEncode(value)

VariableDecodeUnsignedZig(s, w) ==
    LET d == ContDecode(s, w)
    IN  IF ~d.ok THEN d ELSE [d EXCEPT !.value = AsUnsigned(ZigDecode(d.value, w), w)]

VariableDecodeUnsigned(s, w) == ContDecode(s, w)

VariableEncodeSignedNoZig(value, w) == ContEncode(AsUnsigned(value, w))

VariableEncodeSigned(value, w) == ContEncode(ZigEncode(value, w))

VariableDecodeSigned(s, w) ==
    LET d == ContDecode(s, w)
    IN  IF ~d.ok THEN d ELSE [d EXCEPT !.value = ZigDecode(d.value, w)]

\* impl UsizeEncoding for Variable
VariableEncodeUsize(value) == ContEncode(value)
VariableDecodeUsize(s) == ContDecode(s, Bits("usize"))

\* StorageEncoder (I = L = Variable): the bytes encode_<ty>(value) writes.
StorageEncodeU8(value)    == << value >>
StorageEncodeI8(value)    == StorageEncodeU8(AsUnsigned(value, 8))
StorageEncodeU16(value)   == VariableEncodeUnsigned(value)
StorageEncodeI16(value)   == VariableEncodeSigned(value, 16)
StorageEncodeUsize(value) == VariableEncodeUsize(value)
StorageEncodeIsize(value) == StorageEncodeUsize(AsUnsigned(value, Bits("isize")))

StorageEncode(ty, value) ==
    CASE ty = "u8"    -> StorageEncodeU8(value)
      [] ty = "i8"    -> StorageEncodeI8(value)
      [] ty = "u16"   -> StorageEncodeU16(value)
      [] ty = "i16"   -> StorageEncodeI16(value)
      [] ty = "usize" -> StorageEncodeUsize(value)
      [] ty = "isize" -> StorageEncodeIsize(value)

\* The matching reads. u8 is one raw byte; i8 and isize are the `as` casts of
\* the unsigned reads (decode_u8()? as i8, decode_usize()? as isize).
StorageDecodeU8(s) ==
    LET rb == SliceReadByte(s)
    IN  IF ~rb.ok THEN [ok |-> FALSE, value |-> 0, r |-> rb.r]
        ELSE [ok |-> TRUE, value |-> rb.out[1], r |-> rb.r]

DecodeI8(s) ==
    LET d == StorageDecodeU8(s)
    IN  IF ~d.ok THEN d ELSE [d EXCEPT !.value = AsSigned(d.value, 8)]

DecodeIsize(s) ==
    LET d == VariableDecodeUsize(s)
    IN  IF ~d.ok THEN d ELSE [d EXCEPT !.value = AsSigned(d.value, Bits("isize"))]

StorageDecode(ty, s) ==
    CASE ty = "u8"    -> StorageDecodeU8(s)
      [] ty = "i8"    -> DecodeI8(s)
      [] ty = "u16"   -> VariableDecodeUnsigned(s, 16)
      [] ty = "i16"   -> VariableDecodeSigned(s, 16)
      [] ty = "usize" -> VariableDecodeUsize(s)
      [] ty = "isize" -> DecodeIsize(s)

\* ------------------------------------------------------------------------
\* The integer driver. Mode "rt" is the round trip of int/tests.rs (two values
\* written back to back, then two reads); modes "zig" and "unzig" are
\* test_zigzag's rt: zigzag::encode then decode, and decode then encode.

IntDense == 40  \* the values 0..IntDense (and their negatives) are all tried

BoundaryU16 == {127, 128, 129, 255, 256, 1000, 16383, 16384, 32768, 65534, 65535}
BoundaryI16 == {-32768, -32767, -8193, -8192, -129, -128, -65, -64,
                63, 64, 127, 128, 8191, 8192, 32766, 32767}

ValuesOf(ty) ==
    CASE ty = "u8" -> 0..255
      [] ty = "i8" -> -128..127
      [] ty \in {"u16", "usize"} -> (0..IntDense) \cup BoundaryU16
      [] ty \in {"i16", "isize"} -> ((0 - IntDense)..IntDense) \cup BoundaryI16

\* The second value of a round trip.
SecondOf(ty) ==
    CASE ty = "u8" -> {0, 200}
      [] ty = "i8" -> {-1, 100}
      [] ty \in {"u16", "usize"} -> {0, 128, 65535}
      [] ty \in {"i16", "isize"} -> {-1, 64, -32768}

InitInt ==
    /\ \/ \E ty \in UnsignedTypes \cup SignedTypes :
            \E a \in ValuesOf(ty), b \in SecondOf(ty) :
               /\ int_in = [mode |-> "rt", ty |-> ty, vals |-> << a, b >>]
               /\ int_pc = "enc1"
       \/ \E ty \in SignedTypes : \E x \in ValuesOf(ty) :
               /\ int_in = [mode |-> "zig", ty |-> ty, vals |-> << x >>]
               /\ int_pc = "zig_enc"
       \/ \E ty \in SignedTypes : \E x \in ValuesOf(ty) :
               /\ int_in = [mode |-> "unzig", ty |-> ty,
                            vals |-> << AsUnsigned(x, Bits(ty)) >>]
               /\ int_pc = "unzig_dec"
    /\ int_buf = [out |-> << >>, data |-> << >>]
    /\ int_out = << >>
    /\ RdIdle /\ NetIdle /\ WIdle /\ JIdle /\ BIdle /\ CIdle

\* encoder.encode_<ty>(vals[i]) on a StorageEncoder over the Vec `out`
IntEncode ==
    /\ int_pc \in {"enc1", "enc2"}
    /\ LET i == IF int_pc = "enc1" THEN 1 ELSE 2
       IN  int_buf' = [int_buf EXCEPT
                         !.out = @ \o StorageEncode(int_in.ty, int_in.vals[i])]
    /\ int_pc' = IF int_pc = "enc1" THEN "enc2" ELSE "dec1"
    /\ UNCHANGED << int_in, int_out, rdVars, netVars, wVars, jVars, bVars, cVars >>

\* let mut data = out.as_slice(); then decode from &mut data
IntDecode ==
    /\ int_pc \in {"dec1", "dec2"}
    /\ LET data == IF int_pc = "dec1" THEN int_buf.out ELSE int_buf.data
           d    == StorageDecode(int_in.ty, data)
       IN  /\ int_buf' = [int_buf EXCEPT !.data = d.r]
           /\ int_out' = Append(int_out, [ok |-> d.ok, value |-> d.value])
    /\ int_pc' = IF int_pc = "dec1" THEN "dec2" ELSE "done"
    /\ UNCHANGED << int_in, rdVars, netVars, wVars, jVars, bVars, cVars >>

\* zig::encode(value)
IntZigEncode ==
    /\ int_pc \in {"zig_enc", "unzig_enc"}
    /\ LET x == IF int_pc = "zig_enc" THEN int_in.vals[1] ELSE int_out[1]
       IN  int_out' = Append(int_out, ZigEncode(x, Bits(int_in.ty)))
    /\ int_pc' = IF int_pc = "zig_enc" THEN "zig_dec" ELSE "unzig_done"
    /\ UNCHANGED << int_in, int_buf, rdVars, netVars, wVars, jVars, bVars, cVars >>

\* zig::decode(value)
IntZigDecode ==
    /\ int_pc \in {"zig_dec", "unzig_dec"}
    /\ LET u == IF int_pc = "zig_dec" THEN int_out[1] ELSE int_in.vals[1]
       IN  int_out' = Append(int_out, ZigDecode(u, Bits(int_in.ty)))
    /\ int_pc' = IF int_pc = "zig_dec" THEN "zig_done" ELSE "unzig_enc"
    /\ UNCHANGED << int_in, int_buf, rdVars, netVars, wVars, jVars, bVars, cVars >>

NextInt == IntEncode \/ IntDecode \/ IntZigEncode \/ IntZigDecode

SpecInt == InitInt /\ [][NextInt]_vars

\* ------------------------------------------------------------------------
\* musli/src/impls/net.rs
\* ------------------------------------------------------------------------

\* Encode and Decode are generic over the format; the format is modelled by
\* the sequence of protocol calls it carries faithfully: an array of octets,
\* an integer, a pack of items, a variant (discriminant, payload).
WArray(bytes)       == [kind |-> "array", bytes |-> bytes]
WInt(ty, v)         == [kind |-> ty, v |-> v]
WPack(items)        == [kind |-> "pack", items |-> items]
WVariant(tag, body) == [kind |-> "variant", tag |-> tag, body |-> body]

NetErr == [ok |-> FALSE]

\* An address value: [ty, variant, ip, port, flowinfo, scope_id]; the V4
\* variants have four octets and the V6 variants sixteen, and the fields a
\* variant does not have are 0.
IpAddrValue(variant, ip) ==
    [ty |-> "IpAddr", variant |-> variant, ip |-> ip,
     port |-> 0, flowinfo |-> 0, scope_id |-> 0]
SocketAddrValue(variant, ip, port, flowinfo, scope_id) ==
    [ty |-> "SocketAddr", variant |-> variant, ip |-> ip,
     port |-> port, flowinfo |-> flowinfo, scope_id |-> scope_id]

\* Decoder::decode_array::<N>: the array must have exactly N bytes
DecodeArray(n, w) ==
    IF w.kind = "array" /\ Len(w.bytes) = n
    THEN [ok |-> TRUE, value |-> w.bytes]
    ELSE NetErr

\* integer decode of the given type (u16::decode, u32::decode, usize::decode)
DecodeInt(ty, w) ==
    IF w.kind = ty THEN [ok |-> TRUE, value |-> w.v] ELSE NetErr

\* impl Encode / Decode for Ipv4Addr, Ipv6Addr
Ipv4AddrEncode(ip) == WArray(ip)
Ipv4AddrDecode(w)  == DecodeArray(4, w)
Ipv6AddrEncode(ip) == WArray(ip)
Ipv6AddrDecode(w)  == DecodeArray(16, w)

\* impl Encode for IpAddr: both arms insert the discriminant 0usize
IpAddrEncode(v) ==
    IF v.variant = "V4"
    THEN WVariant(WInt("usize", 0), Ipv4AddrEncode(v.ip))
    ELSE WVariant(WInt("usize", 0), Ipv6AddrEncode(v.ip))

\* impl Decode for IpAddr
IpAddrDecode(w) ==
    IF w.kind # "variant" THEN NetErr
    ELSE LET index == DecodeInt("usize", w.tag)
         IN  IF ~index.ok THEN NetErr
             ELSE CASE index.value = 0 ->
                         LET d == Ipv4AddrDecode(w.body)
                         IN  IF ~d.ok THEN NetErr
                             ELSE [ok |-> TRUE, value |-> IpAddrValue("V4", d.value)]
                    [] index.value = 1 ->
                         LET d == Ipv6AddrDecode(w.body)
                         IN  IF ~d.ok THEN NetErr
                             ELSE [ok |-> TRUE, value |-> IpAddrValue("V6", d.value)]
                    [] OTHER -> NetErr

\* impl Encode / Decode for SocketAddrV4: a pack of ip, port
SocketAddrV4Encode(v) ==
    WPack(<< Ipv4AddrEncode(v.ip), WInt("u16", v.port) >>)

SocketAddrV4Decode(w) ==
    IF w.kind # "pack" \/ Len(w.items) < 2 THEN NetErr
    ELSE LET ip   == Ipv4AddrDecode(w.items[1])
             port == DecodeInt("u16", w.items[2])
         IN  IF ~ip.ok \/ ~port.ok THEN NetErr
             ELSE [ok |-> TRUE,
                   value |-> SocketAddrValue("V4", ip.value, port.value, 0, 0)]

\* impl Encode / Decode for SocketAddrV6: a pack of ip, port, flowinfo, scope_id
SocketAddrV6Encode(v) ==
    WPack(<< Ipv6AddrEncode(v.ip), WInt("u16", v.port),
             WInt("u32", v.flowinfo), WInt("u32", v.scope_id) >>)

SocketAddrV6Decode(w) ==
    IF w.kind # "pack" \/ Len(w.items) < 4 THEN NetErr
    ELSE LET ip       == Ipv6AddrDecode(w.items[1])
             port     == DecodeInt("u16", w.items[2])
             flowinfo == DecodeInt("u32", w.items[3])
             scope_id == DecodeInt("u32", w.items[4])
         IN  IF ~ip.ok \/ ~port.ok \/ ~flowinfo.ok \/ ~scope_id.ok THEN NetErr
             ELSE [ok |-> TRUE,
                   value |-> SocketAddrValue("V6", ip.value, port.value,
                                             flowinfo.value, scope_id.value)]

\* impl Encode for SocketAddr: V4 inserts 0usize, V6 inserts 1usize
SocketAddrEncode(v) ==
    IF v.variant = "V4"
    THEN WVariant(WInt("usize", 0), SocketAddrV4Encode(v))
    ELSE WVariant(WInt("usize", 1), SocketAddrV6Encode(v))

\* impl Decode for SocketAddr
SocketAddrDecode(w) ==
    IF w.kind # "variant" THEN NetErr
    ELSE LET index == DecodeInt("usize", w.tag)
         IN  IF ~index.ok THEN NetErr
             ELSE CASE index.value = 0 -> SocketAddrV4Decode(w.body)
                    [] index.value = 1 -> SocketAddrV6Decode(w.body)
                    [] OTHER -> NetErr

\* ------------------------------------------------------------------------
\* The address driver: rt!(value), encode and then decode.

Octets == {0, 1, 255}
Ports  == {0, 80, 65535}
Flows  == {0, 7}

V4Addrs == { << a, b, 0, d >> : a \in Octets, b \in Octets, d \in Octets }
V6Addrs == { [i \in 1..16 |-> IF i = 1 THEN a ELSE IF i = 16 THEN b ELSE 0] :
               a \in Octets, b \in Octets }

NetValues ==
    { IpAddrValue("V4", ip) : ip \in V4Addrs }
    \cup { IpAddrValue("V6", ip) : ip \in V6Addrs }
    \cup { SocketAddrValue("V4", ip, port, 0, 0) : ip \in V4Addrs, port \in Ports }
    \cup { SocketAddrValue("V6", ip, port, f, s) :
             ip \in V6Addrs, port \in Ports, f \in Flows, s \in Flows }

InitNet ==
    /\ net_in \in NetValues
    /\ net_wire = [kind |-> "idle"]
    /\ net_out = [ok |-> FALSE]
    /\ net_pc = "encode"
    /\ RdIdle /\ IntIdle /\ WIdle /\ JIdle /\ BIdle /\ CIdle

\* to_vec(&value)
NetEncode ==
    /\ net_pc = "encode"
    /\ net_wire' = IF net_in.ty = "IpAddr" THEN IpAddrEncode(net_in)
                   ELSE SocketAddrEncode(net_in)
    /\ net_pc' = "decode"
    /\ UNCHANGED << net_in, net_out, rdVars, intVars, wVars, jVars, bVars, cVars >>

\* from_slice(&out)
NetDecode ==
    /\ net_pc = "decode"
    /\ net_out' = IF net_in.ty = "IpAddr" THEN IpAddrDecode(net_wire)
                  ELSE SocketAddrDecode(net_wire)
    /\ net_pc' = "done"
    /\ UNCHANGED << net_in, net_wire, rdVars, intVars, wVars, jVars, bVars, cVars >>

NextNet == NetEncode \/ NetDecode

SpecNet == InitNet /\ [][NextNet]_vars

\* ------------------------------------------------------------------------
\* musli-wire/src/types.rs
\* ------------------------------------------------------------------------

\* The low five bits of a tag byte; all ones means the length follows.
LEN_MASK == 31

\* TypeKind, in the order of its discriminants 0b000 .. 0b111 (the high
\* three bits of the tag byte).
TypeKinds == << "Mark", "Byte", "Fixed", "Continuation",
                "Prefixed", "Sequence", "PairSequence", "Unknown" >>

\* TypeKind as u8, shifted down by five bits
KindBits(kind) == (CHOOSE i \in 1..8 : TypeKinds[i] = kind) - 1

\* TypeTag::new
TypeTagNew(kind, len) ==
    [kind |-> kind, len |-> IF len < LEN_MASK THEN len ELSE LEN_MASK]

\* TypeTag::with_len: the tag and whether the length was embedded
TypeTagWithLen(kind, len) ==
    IF len < LEN_MASK
    THEN [tag |-> TypeTagNew(kind, len), embedded |-> TRUE]
    ELSE [tag |-> TypeTagNew(kind, LEN_MASK), embedded |-> FALSE]

\* TypeTag::with_byte
TypeTagWithByte(kind, b) ==
    IF b < LEN_MASK
    THEN [tag |-> TypeTagNew(kind, b), embedded |-> TRUE]
    ELSE [tag |-> TypeTagNew(kind, LEN_MASK), embedded |-> FALSE]

\* A variant that clears the length bits of a tag of unknown kind.
TypeTagFromByteClearsUnknown(b) ==
    IF b \div (LEN_MASK + 1) = 7 THEN [kind |-> "Unknown", len |-> 0]
    ELSE [kind |-> TypeKinds[(b \div (LEN_MASK + 1)) + 1], len |-> b % (LEN_MASK + 1)]

\* TypeTag::from_byte: len = b & LEN_MASK, kind from b & !LEN_MASK
TypeTagFromByte(b) ==
    [kind |-> TypeKinds[(b \div (LEN_MASK + 1)) + 1], len |-> b % (LEN_MASK + 1)]

\* TypeTag::byte: kind | len
TypeTagByte(t) == KindBits(t.kind) * (LEN_MASK + 1) + t.len

\* TypeTag::len: None when the five bits are all ones
TypeTagLen(t) ==
    IF t.len = LEN_MASK THEN [some |-> FALSE, v |-> 0]
    ELSE [some |-> TRUE, v |-> t.len]

\* ---- the tag byte through from_byte and byte ----

InitTag ==
    /\ \E b \in 0..255 : w_in = [name |-> "tag", b |-> b]
    /\ w_reader = [s |-> << >>, pos |-> 0]
    /\ w_dec = [remaining |-> 0]
    /\ w_res = [ok |-> FALSE]
    /\ w_pc = "byte"
    /\ RdIdle /\ IntIdle /\ NetIdle /\ JIdle /\ BIdle /\ CIdle

\* TypeTag::from_byte(b)
TagFromByte ==
    /\ w_pc = "byte" /\ w_in.name = "tag"
    /\ w_res' = [ok |-> TRUE, tag |-> TypeTagFromByte(w_in.b)]
    /\ w_pc' = "tag"
    /\ UNCHANGED << w_in, w_reader, w_dec, rdVars, intVars, netVars, jVars, bVars, cVars >>

\* tag.byte()
TagByte ==
    /\ w_pc = "tag" /\ w_in.name = "tag"
    /\ w_res' = [ok |-> TRUE, tag |-> w_res.tag, byte |-> TypeTagByte(w_res.tag)]
    /\ w_pc' = "again"
    /\ UNCHANGED << w_in, w_reader, w_dec, rdVars, intVars, netVars, jVars, bVars, cVars >>

NextTag == TagFromByte \/ TagByte

SpecTag == InitTag /\ [][NextTag]_vars

\* ------------------------------------------------------------------------
\* The binary-tagged encoder. Its source is not part of src/; these are the
\* encode rules of the specification: a byte below 31 embedded in the tag,
\* otherwise the sentinel and the byte; an integer as a Continuation tag and
\* its continuation bytes; bytes behind a Prefixed tag with their length; a
\* sequence behind a Sequence tag with its element count; a map or struct
\* behind a PairSequence tag with its number of pairs.
\* ------------------------------------------------------------------------

\* A value to encode: [k, n, bytes, items]. k is the shape, n the number of a
\* "byte" or "int", bytes the content of "bytes", items the elements of a "seq"
\* or the keys and values of "pairs" in turn.
VByte(b)      == [k |-> "byte", n |-> b, bytes |-> << >>, items |-> << >>]
VInt(u)       == [k |-> "int", n |-> u, bytes |-> << >>, items |-> << >>]
VBytes(bs)    == [k |-> "bytes", n |-> 0, bytes |-> bs, items |-> << >>]
VSeq(items)   == [k |-> "seq", n |-> 0, bytes |-> << >>, items |-> items]
VPairs(items) == [k |-> "pairs", n |-> 0, bytes |-> << >>, items |-> items]

\* a tag of the kind with the length embedded, or the sentinel and the length
WireEncodeLen(kind, len) ==
    LET t == TypeTagWithLen(kind, len)
    IN  IF t.embedded THEN << TypeTagByte(t.tag) >>
        ELSE << TypeTagByte(t.tag) >> \o ContEncode(len)

WireEncodeU8(b) ==
    LET t == TypeTagWithByte("Byte", b)
    IN  IF t.embedded THEN << TypeTagByte(t.tag) >>
        ELSE << TypeTagByte(t.tag), b >>

WireEncodeUnsigned(u) ==
    << TypeTagByte(TypeTagNew("Continuation", 0)) >> \o ContEncode(u)

WireEncodeBytes(bs) == WireEncodeLen("Prefixed", Len(bs)) \o bs

RECURSIVE WireEncode(_)
RECURSIVE WireEncodeAll(_)
WireEncodeAll(items) ==
    IF Len(items) = 0 THEN << >>
    ELSE WireEncode(Head(items)) \o WireEncodeAll(Tail(items))

WireEncode(v) ==
    CASE v.k = "byte"  -> WireEncodeU8(v.n)
      [] v.k = "int"   -> WireEncodeUnsigned(v.n)
      [] v.k = "bytes" -> WireEncodeBytes(v.bytes)
      [] v.k = "seq"   ->
            WireEncodeLen("Sequence", Len(v.items)) \o WireEncodeAll(v.items)
      [] v.k = "pairs" ->
            WireEncodeLen("PairSequence", Len(v.items) \div 2)
                \o WireEncodeAll(v.items)

\* The keys and values of a struct with index tags: 0, fields[1], 1, fields[2], ...
RECURSIVE FieldPairs(_, _)
FieldPairs(fields, i) ==
    IF i > Len(fields) THEN << >>
    ELSE << VInt(i - 1), VInt(fields[i]) >> \o FieldPairs(fields, i + 1)

\* encode_struct / encode_map of the fields
WireEncodeStruct(fields) == WireEncode(VPairs(FieldPairs(fields, 1)))

\* The same keys and values behind a Sequence tag recording count, the kind
\* decode_sequence_len accepts.
SequenceTaggedPairs(count, fields) ==
    WireEncodeLen("Sequence", count) \o WireEncodeAll(FieldPairs(fields, 1))

\* ------------------------------------------------------------------------
\* musli-wire/src/de.rs: WireDecoder<R, I, L> over a positioned reader
\* p = [pos, s]. Tag, Kind and tag.data() of de.rs are TypeTag, TypeKind and
\* TypeTag::len() of types.rs (Kind::Prefix is TypeKind::Prefixed).
\* ------------------------------------------------------------------------

WErr(p)      == [ok |-> FALSE, value |-> 0, r |-> p]
WOk(v, p)    == [ok |-> TRUE, value |-> v, r |-> p]

\* the reader after a continuation decode that left the bytes rest
AfterCont(p, rest) == [pos |-> p.pos + (Len(p.s) - Len(rest)), s |-> rest]

\* L::decode_usize(&mut self.reader): the continuation-encoded length
LDecodeUsize(p) ==
    LET d == ContDecode(p.s, Bits("usize"))
    IN  [ok |-> d.ok, value |-> d.value, r |-> AfterCont(p, d.r)]

\* c::decode::<_, u128>(&mut self.reader) with the value discarded: bytes are
\* read until one without bit 7; a group beyond 128 bits is an error.
RECURSIVE ContDiscardLoop(_, _)
ContDiscardLoop(s, shift) ==
    IF shift + 7 >= 128 THEN [ok |-> FALSE, r |-> s]
    ELSE LET rb == SliceReadByte(s)
         IN  IF ~rb.ok THEN [ok |-> FALSE, r |-> rb.r]
             ELSE IF rb.out[1] >= 128 THEN ContDiscardLoop(rb.r, shift + 7)
             ELSE [ok |-> TRUE, r |-> rb.r]

ContDiscard(p) ==
    LET rb == SliceReadByte(p.s)
    IN  IF ~rb.ok THEN WErr(p)
        ELSE LET d == IF rb.out[1] < 128 THEN [ok |-> TRUE, r |-> rb.r]
                      ELSE ContDiscardLoop(rb.r, 0)
             IN  [ok |-> d.ok, value |-> 0, r |-> AfterCont(p, d.r)]

\* if let Some(len) = tag.data() { len as usize } else { L::decode_usize(..)? }
DecodeLen(tag, p) ==
    IF TypeTagLen(tag).some THEN WOk(TypeTagLen(tag).v, p) ELSE LDecodeUsize(p)

\* What a tag kind without an arm in skip_any's match does: the match of the
\* source names four kinds only, so for the other kinds either outcome is
\* modelled, an error or falling through to Ok(()).
NoArmOutcomes == {"fail", "done"}

\* WireDecoder::skip_any
RECURSIVE SkipAny(_, _)
RECURSIVE SkipAnyTimes(_, _, _)
SkipAnyTimes(p, n, noarm) ==
    IF n = 0 THEN WOk(0, p)
    ELSE LET d == SkipAny(p, noarm)
         IN  IF ~d.ok THEN d ELSE SkipAnyTimes(d.r, n - 1, noarm)

SkipAny(p, noarm) ==
    LET rb == WithPositionReadByte(p)
    IN  IF ~rb.ok THEN WErr(rb.r)
        ELSE
          LET tag == TypeTagFromByte(rb.out[1])
          IN  CASE tag.kind = "Byte" ->
                     IF ~TypeTagLen(tag).some
                     THEN LET sk == WithPositionSkip(rb.r, 1)
                          IN  [ok |-> sk.ok, value |-> 0, r |-> sk.r]
                     ELSE WOk(0, rb.r)
                [] tag.kind = "Prefixed" ->
                     LET len == DecodeLen(tag, rb.r)
                     IN  IF ~len.ok THEN len
                         ELSE LET sk == WithPositionSkip(len.r, len.value)
                              IN  [ok |-> sk.ok, value |-> 0, r |-> sk.r]
                [] tag.kind = "Sequence" ->
                     LET len == DecodeLen(tag, rb.r)
                     IN  IF ~len.ok THEN len
                         ELSE SkipAnyTimes(len.r, len.value, noarm)
                [] tag.kind = "Continuation" ->
                     IF ~TypeTagLen(tag).some THEN ContDiscard(rb.r)
                     ELSE WOk(0, rb.r)
                [] OTHER ->
                     IF noarm = "fail" THEN WErr(rb.r) ELSE WOk(0, rb.r)

\* WireDecoder::decode_sequence_len
DecodeSequenceLen(p) ==
    LET rb == WithPositionReadByte(p)
    IN  IF ~rb.ok THEN WErr(rb.r)
        ELSE LET tag == TypeTagFromByte(rb.out[1])
             IN  IF tag.kind = "Sequence" THEN DecodeLen(tag, rb.r)
                 ELSE WErr(rb.r)

\* WireDecoder::shared_decode_pair_sequence: RemainingWireDecoder::new(len / 2, self);
\* value is the decoder's remaining.
SharedDecodePairSequence(p) ==
    LET len == DecodeSequenceLen(p)
    IN  IF ~len.ok THEN len ELSE WOk(len.value \div 2, len.r)

\* Decoder::decode_map, Decoder::decode_struct
DecodeMap(p)    == SharedDecodePairSequence(p)
DecodeStruct(p) == SharedDecodePairSequence(p)

\* impl PairsDecoder for RemainingWireDecoder: next
PairsNext(rem) ==
    IF rem = 0 THEN [some |-> FALSE, remaining |-> rem]
    ELSE [some |-> TRUE, remaining |-> rem - 1]

\* impl PairDecoder for WireDecoder: skip_second
SkipSecond(p, noarm) == SkipAny(p, noarm)

\* I::decode_typed_unsigned / L::decode_typed_usize (not part of src/): the
\* tag must be of kind Continuation, the continuation bytes follow.
WireDecodeUnsigned(p, w) ==
    LET rb == WithPositionReadByte(p)
    IN  IF ~rb.ok THEN WErr(rb.r)
        ELSE IF TypeTagFromByte(rb.out[1]).kind # "Continuation" THEN WErr(rb.r)
        ELSE LET d == ContDecode(rb.r.s, w)
             IN  [ok |-> d.ok, value |-> d.value, r |-> AfterCont(rb.r, d.r)]

\* ------------------------------------------------------------------------
\* The wire driver. Scenario "skip": skip_any on the encoding of a value
\* followed by a trailer. Scenarios "struct" and "map": transcode, the pairs
\* of a struct with index tags 0, 1, ... decoded as the older struct that
\* knows the fields 0 and 1 (skipping every other field through
\* skip_second), or as a map that takes every pair.

MaxFields == 3   \* most fields of the struct written

\* n bytes of value 1
Fill(n) == [i \in 1..n |-> 1]

SkipValues ==
    { VByte(5), VByte(30), VByte(31), VByte(200),
      VInt(0), VInt(42), VInt(1000),
      VBytes(<< >>), VBytes(<< 1, 2, 3 >>), VBytes(Fill(LEN_MASK)),
      VSeq(<< >>),
      VSeq(<< VByte(5), VBytes(<< 1, 2, 3 >>) >>),
      VSeq(<< VSeq(<< VByte(200) >>), VByte(1) >>),
      VSeq([i \in 1..LEN_MASK |-> VByte(1)]),
      VSeq(<< VInt(42) >>),
      VPairs(<< >>),
      VPairs(<< VByte(1), VByte(2) >>),
      VPairs(<< VInt(0), VBytes(<< 1, 2, 3 >>), VInt(1), VInt(42) >>),
      VSeq(<< VPairs(<< VByte(1), VByte(2) >>), VByte(3) >>) }

\* The value that follows the skipped one: nothing, Byte 7, or 42u16.
Trailers == { << >>, WireEncode(VByte(7)), WireEncode(VInt(42)) }

FieldValues == {5, 300}

\* How the pairs of a struct are tagged: by the encoder (PairSequence, number
\* of pairs), or by a Sequence tag recording the number of pairs or the
\* number of keys and values.
Conventions == {"PairSequence", "SequencePairs", "SequenceItems"}

StructBytes(conv, fields) ==
    CASE conv = "PairSequence"  -> WireEncodeStruct(fields)
      [] conv = "SequencePairs" -> SequenceTaggedPairs(Len(fields), fields)
      [] conv = "SequenceItems" -> SequenceTaggedPairs(2 * Len(fields), fields)

\* The fields the older struct knows.
KnownFields == {0, 1}

InitWire ==
    /\ \/ \E v \in SkipValues, t \in Trailers :
             /\ w_in = [name |-> "skip", value |-> v, trailer |-> t]
             /\ w_reader = [pos |-> 0, s |-> WireEncode(v) \o t]
             /\ w_pc = "skip"
       \/ \E name \in {"struct", "map"}, conv \in Conventions, n \in 0..MaxFields :
             \E fields \in [1..n -> FieldValues] :
                /\ w_in = [name |-> name, conv |-> conv, fields |-> fields,
                           count |-> IF conv = "SequenceItems" THEN 2 * n ELSE n]
                /\ w_reader = [pos |-> 0, s |-> StructBytes(conv, fields)]
                /\ w_pc = "decode"
    /\ w_dec = [remaining |-> 0, yielded |-> 0, got |-> << >>]
    /\ w_res = [ok |-> TRUE]
    /\ RdIdle /\ IntIdle /\ NetIdle /\ JIdle /\ BIdle /\ CIdle

\* decoder.skip_any()
WSkipAny ==
    /\ w_pc = "skip"
    /\ \E noarm \in NoArmOutcomes :
          LET d == SkipAny(w_reader, noarm)
          IN  /\ w_reader' = d.r
              /\ w_res' = [ok |-> d.ok]
    /\ w_pc' = "done"
    /\ UNCHANGED << w_in, w_dec, rdVars, intVars, netVars, jVars, bVars, cVars >>

\* decoder.decode_struct(2) / decoder.decode_map()
WDecodePairs ==
    /\ w_pc = "decode"
    /\ LET d == IF w_in.name = "struct" THEN DecodeStruct(w_reader)
                ELSE DecodeMap(w_reader)
       IN  /\ w_reader' = d.r
           /\ w_res' = [ok |-> d.ok]
           /\ w_dec' = [w_dec EXCEPT !.remaining = d.value]
           /\ w_pc' = IF d.ok THEN "next" ELSE "nodecoder"
    /\ UNCHANGED << w_in, rdVars, intVars, netVars, jVars, bVars, cVars >>

\* pairs.next(): Some(pair) hands out a pair decoder; on None the struct is
\* built, which needs every known field.
WNext ==
    /\ w_pc = "next"
    /\ LET nx == PairsNext(w_dec.remaining)
       IN  IF nx.some
           THEN /\ w_dec' = [w_dec EXCEPT !.remaining = nx.remaining,
                                          !.yielded = @ + 1]
                /\ w_pc' = "pair"
                /\ UNCHANGED w_res
           ELSE /\ w_res' = [ok |-> \/ w_in.name = "map"
                                    \/ \A f \in KnownFields :
                                         \E i \in 1..Len(w_dec.got) :
                                            w_dec.got[i][1] = f]
                /\ w_pc' = "end"
                /\ UNCHANGED w_dec
    /\ UNCHANGED << w_in, w_reader, rdVars, intVars, netVars, jVars, bVars, cVars >>

\* One pair: pair.first() decodes the field tag; a known field's value is
\* decoded through pair.second(), any other is passed by pair.skip_second().
WPair ==
    /\ w_pc = "pair"
    /\ \E noarm \in NoArmOutcomes :
          LET tag == WireDecodeUnsigned(w_reader, Bits("usize"))
          IN  IF ~tag.ok
              THEN /\ w_reader' = tag.r
                   /\ w_res' = [ok |-> FALSE]
                   /\ w_pc' = "failed"
                   /\ UNCHANGED w_dec
              ELSE IF w_in.name = "map" \/ tag.value \in KnownFields
              THEN LET v == WireDecodeUnsigned(tag.r, 16)
                   IN  /\ w_reader' = v.r
                       /\ w_res' = [ok |-> v.ok]
                       /\ w_pc' = IF v.ok THEN "next" ELSE "failed"
                       /\ w_dec' = IF v.ok
                                   THEN [w_dec EXCEPT !.got =
                                           Append(@, << tag.value, v.value >>)]
                                   ELSE w_dec
              ELSE LET sk == SkipSecond(tag.r, noarm)
                   IN  /\ w_reader' = sk.r
                       /\ w_res' = [ok |-> sk.ok]
                       /\ w_pc' = IF sk.ok THEN "next" ELSE "failed"
                       /\ UNCHANGED w_dec
    /\ UNCHANGED << w_in, rdVars, intVars, netVars, jVars, bVars, cVars >>

NextWire == WSkipAny \/ WDecodePairs \/ WNext \/ WPair

SpecWire == InitWire /\ [][NextWire]_vars

\* ------------------------------------------------------------------------
\* musli-wire/src/de.rs: MaybeWireDecoder<D>, the decoder of a variant's
\* payload, around a WireDecoder
\* ------------------------------------------------------------------------

\* WireDecoder::decode_bool: the tag must be Byte 0 or Byte 1.
WireDecodeBool(p) ==
    IF ~WithPositionReadByte(p).ok THEN WErr(WithPositionReadByte(p).r)
    ELSE IF TypeTagFromByte(WithPositionReadByte(p).out[1]) = TypeTagNew("Byte", 0)
    THEN WOk(FALSE, WithPositionReadByte(p).r)
    ELSE IF TypeTagFromByte(WithPositionReadByte(p).out[1]) = TypeTagNew("Byte", 1)
    THEN WOk(TRUE, WithPositionReadByte(p).r)
    ELSE WErr(WithPositionReadByte(p).r)

\* WireDecoder::decode_u8, after the tag byte was read.
WireDecodeU8Tagged(tag, p) ==
    IF tag.kind # "Byte" THEN WErr(p)
    ELSE IF TypeTagLen(tag).some THEN WOk(TypeTagLen(tag).v, p)
    ELSE IF ~WithPositionReadByte(p).ok THEN WErr(WithPositionReadByte(p).r)
    ELSE WOk(WithPositionReadByte(p).out[1], WithPositionReadByte(p).r)

\* WireDecoder::decode_u8
WireDecodeU8(p) ==
    IF ~WithPositionReadByte(p).ok THEN WErr(WithPositionReadByte(p).r)
    ELSE WireDecodeU8Tagged(TypeTagFromByte(WithPositionReadByte(p).out[1]),
                            WithPositionReadByte(p).r)

\* WireDecoder::decode_unit and decode_unit_struct: self.skip_any()?; Ok(())
WireDecodeUnit(p, noarm)       == SkipAny(p, noarm)
WireDecodeUnitStruct(p, noarm) == SkipAny(p, noarm)

\* MaybeWireDecoder::check_empty
CheckEmpty(empty) == [ok |-> ~empty]

\* MaybeWireDecoder::decode_u8: check_empty()?, then the wrapped decoder.
MaybeDecodeU8(empty, p) ==
    IF ~CheckEmpty(empty).ok THEN WErr(p) ELSE WireDecodeU8(p)

\* MaybeWireDecoder::decode_unit: the wrapped decoder unless empty.
MaybeDecodeUnit(empty, p, noarm) ==
    IF ~empty THEN WireDecodeUnit(p, noarm) ELSE WOk(0, p)

\* What MaybeWireDecoder::decode_bool does after check_empty()?: it calls
\* self.decode_bool(), the method itself, not self.decoder.decode_bool().
\* "return" carries the result of the call, "self" is the call of the same
\* method on the same decoder.
MaybeDecodeBool(empty, p) ==
    IF ~CheckEmpty(empty).ok THEN [to |-> "return", res |-> WErr(p)]
    ELSE [to |-> "self", res |-> WOk(0, p)]

\* MaybeWireDecoder::decode_unit_struct: `if !self.empty
\* { self.decode_unit_struct()?; } Ok(())`, again the method itself.
MaybeDecodeUnitStruct(empty, p) ==
    IF ~empty THEN [to |-> "self", res |-> WOk(0, p)]
    ELSE [to |-> "return", res |-> WOk(0, p)]

\* ---- the driver of the payload decoder ----

MaxFrames == 3   \* frames of the call stack before it overflows

\* How the build compiles a call of a method to itself in tail position:
\* as a call, which grows the stack until it overflows, or as a jump, which
\* goes round for ever.
SelfCalls == {"call", "jump"}

MaybeMethods == {"decode_u8", "decode_unit", "decode_bool", "decode_unit_struct"}

\* What the wrapped decoder reads: nothing, Byte 0, Byte 1, Byte 2, Byte with
\* the byte following, that tag alone, an empty sequence, a mark.
MaybePayloads ==
    {<< >>, << 32 >>, << 33 >>, << 34, 7 >>, << 63, 200 >>, << 63 >>,
     << 160 >>, << 0 >>}

InitMaybe ==
    /\ \E method \in MaybeMethods, empty \in BOOLEAN, s \in MaybePayloads,
          selfcall \in SelfCalls :
          /\ w_in = [name |-> "maybe", method |-> method, empty |-> empty,
                     selfcall |-> selfcall, payload |-> s]
          /\ w_reader = [pos |-> 0, s |-> s]
    /\ w_dec = [frames |-> 1]
    /\ w_res = [ok |-> TRUE, value |-> 0]
    /\ w_pc = "call"
    /\ RdIdle /\ IntIdle /\ NetIdle /\ JIdle /\ BIdle /\ CIdle

MaybeOther == << rdVars, intVars, netVars, jVars, bVars, cVars >>

\* The call returned the result d.
MaybeReturned(d) ==
    /\ w_reader' = d.r
    /\ w_res' = [ok |-> d.ok, value |-> d.value]
    /\ w_pc' = "returned"
    /\ UNCHANGED w_dec

\* The method called itself: one more frame, the same frame again, or the
\* stack overflows and the process is aborted.
MaybeCalledItself ==
    IF w_in.selfcall = "jump"
    THEN UNCHANGED << w_reader, w_res, w_pc, w_dec >>
    ELSE IF w_dec.frames < MaxFrames
    THEN /\ w_dec' = [frames |-> w_dec.frames + 1]
         /\ UNCHANGED << w_reader, w_res, w_pc >>
    ELSE /\ w_pc' = "aborted"
         /\ w_res' = [ok |-> FALSE, value |-> 0]
         /\ UNCHANGED << w_reader, w_dec >>

\* payload.decode_u8()
MaybeU8 ==
    /\ w_pc = "call" /\ w_in.method = "decode_u8"
    /\ MaybeReturned(MaybeDecodeU8(w_in.empty, w_reader))
    /\ UNCHANGED << w_in, MaybeOther >>

\* payload.decode_unit()
MaybeUnit ==
    /\ w_pc = "call" /\ w_in.method = "decode_unit"
    /\ \E noarm \in NoArmOutcomes :
          MaybeReturned(MaybeDecodeUnit(w_in.empty, w_reader, noarm))
    /\ UNCHANGED << w_in, MaybeOther >>

\* payload.decode_bool()
MaybeBool ==
    /\ w_pc = "call" /\ w_in.method = "decode_bool"
    /\ IF MaybeDecodeBool(w_in.empty, w_reader).to = "return"
       THEN MaybeReturned(MaybeDecodeBool(w_in.empty, w_reader).res)
       ELSE MaybeCalledItself
    /\ UNCHANGED << w_in, MaybeOther >>

\* payload.decode_unit_struct()
MaybeUnitStruct ==
    /\ w_pc = "call" /\ w_in.method = "decode_unit_struct"
    /\ IF MaybeDecodeUnitStruct(w_in.empty, w_reader).to = "return"
       THEN MaybeReturned(MaybeDecodeUnitStruct(w_in.empty, w_reader).res)
       ELSE MaybeCalledItself
    /\ UNCHANGED << w_in, MaybeOther >>

NextMaybe == MaybeU8 \/ MaybeUnit \/ MaybeBool \/ MaybeUnitStruct

SpecMaybe == InitMaybe /\ [][NextMaybe]_vars

\* Every call that can take a step does so.
SpecMaybeLive == SpecMaybe /\ WF_vars(NextMaybe)

\* ---- decode_pack, the pack's element decoders and end ----

\* Reader::limit
ReaderLimit(p, len) == [remaining |-> len, reader |-> p]

\* WireDecoder::decode_prefix, after the tag byte was read
WireDecodePrefixTagged(tag, p) ==
    IF tag.kind # "Prefixed" THEN WErr(p) ELSE DecodeLen(tag, p)

\* WireDecoder::decode_prefix
WireDecodePrefix(p) ==
    IF ~WithPositionReadByte(p).ok THEN WErr(WithPositionReadByte(p).r)
    ELSE WireDecodePrefixTagged(TypeTagFromByte(WithPositionReadByte(p).out[1]),
                                WithPositionReadByte(p).r)

\* WireDecoder::decode_pack: the prefix, then WireDecoder::new(reader.limit(len))
WireDecodePackLimited(d) ==
    IF ~d.ok THEN [ok |-> FALSE, len |-> 0, pack |-> ReaderLimit(d.r, 0)]
    ELSE [ok |-> TRUE, len |-> d.value, pack |-> ReaderLimit(d.r, d.value)]
WireDecodePack(p) == WireDecodePackLimited(WireDecodePrefix(p))

\* PackDecoder::end of WireDecoder: Ok(()), the Limit is dropped as it is.
PackDecoderEnd(l) == l

MaxPayload == 3   \* longest payload of a pack

\* The payload bytes: a Byte tag holding 1, and a Fixed tag.
PayloadBytes == {33, 64}
PackPayloads == UNION {[1..n -> PayloadBytes] : n \in 0..MaxPayload}

\* The sibling value written after the pack.
Siblings == {5, 200}

\* The kind of the tag the pack is read from.
PackKinds == {"Prefixed", "Sequence"}

InitPack ==
    /\ \E payload \in PackPayloads, sibling \in Siblings, kind \in PackKinds :
          /\ w_in = [name |-> "pack", payload |-> payload, sibling |-> sibling,
                     kind |-> kind]
          /\ w_reader = [pos |-> 0,
                         s |-> WireEncodeLen(kind, Len(payload)) \o payload
                                  \o WireEncodeU8(sibling)]
    /\ w_dec = [remaining |-> 0, len |-> 0, start |-> 0, read |-> 0]
    /\ w_res = [ok |-> FALSE, value |-> 0]
    /\ w_pc = "pack"
    /\ RdIdle /\ IntIdle /\ NetIdle /\ JIdle /\ BIdle /\ CIdle

\* decoder.decode_pack()
PackDecode ==
    /\ w_pc = "pack"
    /\ LET d == WireDecodePack(w_reader)
       IN  /\ w_reader' = d.pack.reader
           /\ w_dec' = [remaining |-> d.pack.remaining, len |-> d.len,
                        start |-> d.pack.reader.pos, read |-> 0]
           /\ w_res' = [ok |-> d.ok, value |-> d.len]
           /\ w_pc' = IF d.ok THEN "elements" ELSE "nopack"
    /\ UNCHANGED << w_in, MaybeOther >>

\* The pack as the driver holds it.
ThePack == [remaining |-> w_dec.remaining, reader |-> w_reader]

\* The element decoder read through the pack's reader.
PackRead(res) ==
    /\ w_reader' = res.r.reader
    /\ w_dec' = [w_dec EXCEPT !.remaining = res.r.remaining,
                              !.read = IF res.ok THEN @ + Len(res.out) ELSE @]
    /\ w_res' = [ok |-> res.ok, value |-> 0]
    /\ w_pc' = "elements"
    /\ UNCHANGED << w_in, MaybeOther >>

\* pack.next() and an element decoder that reads one byte
PackNextByte ==
    /\ w_pc = "elements"
    /\ PackRead(LimitCall("read_byte", ThePack, 1))

\* pack.next() and an element decoder that reads n bytes
PackNextBytes ==
    /\ w_pc = "elements"
    /\ \E n \in 2..MaxN : PackRead(LimitCall("read_bytes", ThePack, n))

\* pack.end()
PackEnd ==
    /\ w_pc = "elements"
    /\ w_reader' = PackDecoderEnd(ThePack).reader
    /\ w_dec' = [w_dec EXCEPT !.remaining = PackDecoderEnd(ThePack).remaining]
    /\ w_res' = [ok |-> TRUE, value |-> 0]
    /\ w_pc' = "ended"
    /\ UNCHANGED << w_in, MaybeOther >>

\* The enclosing value decodes the sibling: decoder.decode_u8()
PackSibling ==
    /\ w_pc = "ended"
    /\ w_res' = [ok |-> WireDecodeU8(w_reader).ok,
                 value |-> WireDecodeU8(w_reader).value]
    /\ w_reader' = WireDecodeU8(w_reader).r
    /\ w_pc' = "sibling"
    /\ UNCHANGED << w_in, w_dec, MaybeOther >>

NextPack ==
    \/ PackDecode
    \/ PackNextByte
    \/ PackNextBytes
    \/ PackEnd
    \/ PackSibling

SpecPack == InitPack /\ [][NextPack]_vars

\* The pairs written, as the decoder should hand them out.
PairsOf(fields) == [i \in 1..Len(fields) |-> << i - 1, fields[i] >>]

\* A value whose encoding holds tags of the kinds Byte, Prefixed and
\* Sequence only.
RECURSIVE PlainValue(_)
PlainValue(v) ==
    /\ v.k \in {"byte", "bytes", "seq"}
    /\ \A i \in 1..Len(v.items) : PlainValue(v.items[i])

\* ------------------------------------------------------------------------
\* musli-json/src/reader/integer.rs
\* ------------------------------------------------------------------------

\* JSON text is a sequence of one-character strings. The parser is
\* [s |-> the text, pos |-> the number of bytes consumed].
DigitChars == << "0", "1", "2", "3", "4", "5", "6", "7", "8", "9" >>

\* fn is_digit
IsDigit(b) == \E i \in 1..10 : DigitChars[i] = b

\* fn is_digit_nonzero
IsDigitNonzero(b) == \E i \in 2..10 : DigitChars[i] = b

\* Unsigned::from_byte(b - b'0')
FromByte(b) == (CHOOSE i \in 1..10 : DigitChars[i] = b) - 1

\* Parser::peek_byte: the next byte, or None ("eof") at the end of the text.
PeekByte(p) == IF p.pos < Len(p.s) THEN p.s[p.pos + 1] ELSE "eof"

\* Parser::skip(n)
ParserSkip(p, n) == [p EXCEPT !.pos = p.pos + n]

\* The integer types the number parser is instantiated with in the model, the
\* unsigned type that carries the magnitude, and its MAX.
JTypes == {"u8", "i8", "u16", "i16"}
JUnsignedMax(ty) == Pow2(Bits(ty)) - 1

\* static POWS of the unsigned! macro.
POWS(ty) == IF Bits(ty) = 8 THEN << 1, 10, 100 >>
                            ELSE << 1, 10, 100, 1000, 10000 >>

None == [some |-> FALSE, v |-> 0]
Some(v) == [some |-> TRUE, v |-> v]

\* Unsigned::checked_mul / checked_add
CheckedMul(a, b, ty) == IF a * b > JUnsignedMax(ty) THEN None ELSE Some(a * b)
CheckedAdd(a, b, ty) == IF a + b > JUnsignedMax(ty) THEN None ELSE Some(a + b)

\* Unsigned::checked_pow
RECURSIVE CheckedPow(_, _, _)
CheckedPow(a, exp, ty) ==
    IF exp = 0 THEN Some(1)
    ELSE LET r == CheckedPow(a, exp - 1, ty)
         IN  IF r.some THEN CheckedMul(r.v, a, ty) ELSE None

\* Unsigned::checked_pow10
CheckedPow10(self, exp, ty) ==
    IF exp < Len(POWS(ty))
    THEN CheckedMul(self, POWS(ty)[exp + 1], ty)
    ELSE LET t == CheckedPow(10, exp, ty)
         IN  IF t.some THEN CheckedMul(self, t.v, ty) ELSE None

\* Unsigned::checked_mul10
CheckedMul10(self, ty) == CheckedMul(self, 10, ty)

\* A variant used to validate C13: the division truncates instead of
\* requiring a zero remainder.
DivModTenTruncating(self) == Some(self \div 10)

\* Unsigned::div_mod_ten
DivModTen(self) == IF self % 10 = 0 THEN Some(self \div 10) ELSE None

\* Unsigned::negate: None above (MAX >> 1) + 1, else the two's complement
\* reinterpreted as the signed type.
Negate(self, ty) ==
    IF self > (JUnsignedMax(ty) \div 2) + 1 THEN None
    ELSE Some(AsSigned((Pow2(Bits(ty)) - self) % Pow2(Bits(ty)), Bits(ty)))

\* Unsigned::signed
SignedOf(self, ty) ==
    IF self > JUnsignedMax(ty) \div 2 THEN None ELSE Some(self)

\* The build profiles: the plain `+` of fn digit aborts on overflow when
\* overflow checks are compiled in and wraps when they are not.
Builds == {"debug", "release"}

JErr(err, at) == [ok |-> FALSE, err |-> err, v |-> 0, pos |-> at]
JOk(v, at)    == [ok |-> TRUE, err |-> "", v |-> v, pos |-> at]

\* fn digit: out * 10 checked, then `out + from_byte(read_byte()? - b'0')`.
Digit(out, p, ty, build) ==
    LET m == CheckedMul10(out, ty)
    IN  IF ~m.some THEN JErr("Overflow", p.pos)
        ELSE IF p.pos >= Len(p.s) THEN JErr("Eof", p.pos)
        ELSE LET sum == m.v + FromByte(p.s[p.pos + 1])
             IN  IF sum <= JUnsignedMax(ty) THEN JOk(sum, p.pos + 1)
                 ELSE IF build = "debug" THEN JErr("Panic", p.pos + 1)
                 ELSE JOk(sum % (JUnsignedMax(ty) + 1), p.pos + 1)

\* fn digit on the u32 of the exponent: exponents of the model have at most
\* two digits, which never overflow a u32.
DigitU32(out, p) == JOk(out * 10 + FromByte(p.s[p.pos + 1]), p.pos + 1)

\* fn decode_zeros: the parser after the run of '0' bytes.
RECURSIVE DecodeZeros(_)
DecodeZeros(p) ==
    IF PeekByte(p) = "0" THEN DecodeZeros(ParserSkip(p, 1)) ELSE p

\* decode_unsigned_inner: `while is_digit(peek) { base = digit(base)? }`
RECURSIVE BaseLoop(_, _, _, _)
BaseLoop(base, p, ty, build) ==
    IF IsDigit(PeekByte(p))
    THEN LET d == Digit(base, p, ty, build)
         IN  IF d.ok THEN BaseLoop(d.v, [p EXCEPT !.pos = d.pos], ty, build)
             ELSE d
    ELSE JOk(base, p.pos)

\* decode_unsigned_inner: the base, everything before a decimal point.
DecodeBase(p, ty, build) ==
    IF p.pos >= Len(p.s) THEN JErr("Eof", p.pos)
    ELSE LET b == p.s[p.pos + 1]
             p1 == ParserSkip(p, 1)
         IN  IF b = "0" THEN JOk(0, p1.pos)
             ELSE IF IsDigitNonzero(b) THEN BaseLoop(FromByte(b), p1, ty, build)
             ELSE JErr("InvalidNumeric", p1.pos)

MErr(err, at) == [ok |-> FALSE, err |-> err, v |-> 0, exp |-> 0, pos |-> at]

\* decode_unsigned_inner: the loop over the digits after the decimal point;
\* zeros is the run of zeros read after the previous digit.
RECURSIVE MantissaLoop(_, _, _, _, _, _)
MantissaLoop(mv, mexp, zeros, p, ty, build) ==
    IF IsDigit(PeekByte(p))
    THEN LET acc == IF zeros > 0 THEN CheckedPow10(mv, zeros, ty) ELSE Some(mv)
         IN  IF ~acc.some THEN MErr("Overflow", p.pos)
             ELSE LET d == Digit(acc.v, p, ty, build)
                  IN  IF ~d.ok THEN MErr(d.err, d.pos)
                      ELSE LET pz == DecodeZeros([p EXCEPT !.pos = d.pos])
                           IN  MantissaLoop(d.v, mexp + zeros + 1,
                                            pz.pos - d.pos, pz, ty, build)
    ELSE [ok |-> TRUE, err |-> "", v |-> mv, exp |-> mexp, pos |-> p.pos]

\* decode_unsigned_inner: the mantissa, anything after a decimal point.
DecodeMantissa(p, ty, build) ==
    IF PeekByte(p) = "."
    THEN LET pz == DecodeZeros(ParserSkip(p, 1))
         IN  MantissaLoop(0, pz.pos - (p.pos + 1), 0, pz, ty, build)
    ELSE [ok |-> TRUE, err |-> "", v |-> 0, exp |-> 0, pos |-> p.pos]

\* decode_exponent: `while is_digit(peek) { e.value = digit(e.value)? }`
RECURSIVE ExponentLoop(_, _)
ExponentLoop(ev, p) ==
    IF IsDigit(PeekByte(p))
    THEN LET d == DigitU32(ev, p)
         IN  ExponentLoop(d.v, [p EXCEPT !.pos = d.pos])
    ELSE JOk(ev, p.pos)

\* fn decode_exponent
DecodeExponent(p) ==
    LET sign == PeekByte(p)
        p1 == IF sign \in {"-", "+"} THEN ParserSkip(p, 1) ELSE p
        r == ExponentLoop(0, p1)
    IN  [value |-> r.v, is_negative |-> (sign = "-"), pos |-> r.pos]

PartsErr(err, at) ==
    [ok |-> FALSE, err |-> err, pos |-> at, base |-> 0,
     m |-> [value |-> 0, exp |-> 0], e |-> [value |-> 0, is_negative |-> FALSE]]

\* decode_unsigned_inner: `Ok(Parts { base, m, e })`, with the parser position.
PartsOk(b, m, e) ==
    [ok |-> TRUE, err |-> "", pos |-> e.pos, base |-> b.v,
     m |-> [value |-> m.v, exp |-> m.exp],
     e |-> [value |-> e.value, is_negative |-> e.is_negative]]

\* decode_unsigned_inner: the exponent, after an 'e' or 'E'.
DecodeExponentPart(p) ==
    IF PeekByte(p) \in {"e", "E"} THEN DecodeExponent(ParserSkip(p, 1))
    ELSE [value |-> 0, is_negative |-> FALSE, pos |-> p.pos]

\* decode_unsigned_inner, from the mantissa m on.
AfterMantissa(b, m, p) ==
    IF ~m.ok THEN PartsErr(m.err, m.pos)
    ELSE PartsOk(b, m, DecodeExponentPart([p EXCEPT !.pos = m.pos]))

\* decode_unsigned_inner, from the base b on.
AfterBase(b, p, ty, build) ==
    IF ~b.ok THEN PartsErr(b.err, b.pos)
    ELSE AfterMantissa(b, DecodeMantissa([p EXCEPT !.pos = b.pos], ty, build),
                       p)

\* fn decode_unsigned_inner: Parts { base, m, e } and the parser position.
DecodeUnsignedInner(p, ty, build) ==
    AfterBase(DecodeBase(p, ty, build), p, ty, build)

\* fn decode_unsigned
DecodeUnsigned(p, ty, build) == DecodeUnsignedInner(p, ty, build)

\* fn decode_signed: [is_negative, parts]
DecodeSigned(p, ty, build) ==
    [is_negative |-> PeekByte(p) = "-",
     parts |-> DecodeUnsignedInner(IF PeekByte(p) = "-" THEN ParserSkip(p, 1)
                                   ELSE p, ty, build)]

CErr(err) == [ok |-> FALSE, err |-> err, v |-> 0]
COk(v)    == [ok |-> TRUE, err |-> "", v |-> v]

\* Parts::compute: `for _ in 0..e.value { base = base.div_mod_ten()? }`
RECURSIVE DivLoop(_, _)
DivLoop(base, n) ==
    IF n = 0 THEN COk(base)
    ELSE LET d == DivModTen(base)
         IN  IF d.some THEN DivLoop(d.v, n - 1) ELSE CErr("Decimal")

\* Parts::compute
PartsCompute(parts, ty) ==
    LET base == parts.base
        m == parts.m
        e == parts.e
    IN  IF e.value = 0
        THEN IF m.value # 0 THEN CErr("Decimal") ELSE COk(base)
        ELSE IF ~e.is_negative
        THEN IF e.value < m.exp THEN CErr("Decimal")
             ELSE LET b1 == IF base # 0 THEN CheckedPow10(base, e.value, ty)
                                        ELSE Some(base)
                      mm == CheckedPow10(m.value, e.value - m.exp, ty)
                      sum == IF mm.some THEN CheckedAdd(b1.v, mm.v, ty) ELSE None
                  IN  IF ~b1.some THEN CErr("Overflow")
                      ELSE IF ~sum.some THEN CErr("Overflow")
                      ELSE COk(sum.v)
        ELSE IF m.value # 0 THEN CErr("Decimal")
             ELSE DivLoop(base, e.value)

\* A variant used to validate C14: the sign is applied without the range
\* check of negate / signed.
ApplySignUnchecked(value, is_negative, ty) ==
    IF ~value.ok THEN value
    ELSE COk(AsSigned(IF is_negative
                      THEN (Pow2(Bits(ty)) - value.v) % Pow2(Bits(ty))
                      ELSE value.v, Bits(ty)))

\* SignedParts::compute: `if self.is_negative { value.negate() } else
\* { value.signed() }`, None being the overflow error.
ApplySign(value, is_negative, ty) ==
    IF ~value.ok THEN value
    ELSE IF is_negative
    THEN IF Negate(value.v, ty).some THEN COk(Negate(value.v, ty).v)
         ELSE CErr("Overflow")
    ELSE IF SignedOf(value.v, ty).some THEN COk(SignedOf(value.v, ty).v)
         ELSE CErr("Overflow")

\* SignedParts::compute
SignedPartsCompute(sp, ty) ==
    ApplySign(PartsCompute(sp.parts, ty), sp.is_negative, ty)

\* ------------------------------------------------------------------------
\* The number driver: one number literal is parsed into one integer type by
\* parse_unsigned or parse_signed.
\* ------------------------------------------------------------------------

JDense == 30   \* the integer parts 0..JDense are all taken

\* Integer parts around the limits of the 8 and 16 bit types.
JBoundary == {99, 100, 127, 128, 129, 130, 200, 250, 255, 256, 259, 260, 300,
              999, 1000, 2550, 2559, 2560, 3000, 32767, 32768, 32769, 65535,
              65536, 65539, 65540, 70000, 655350, 655360}

\* The decimal expansion of n, as JSON text.
RECURSIVE DecimalOf(_)
DecimalOf(n) ==
    IF n < 10 THEN << DigitChars[n + 1] >>
    ELSE Append(DecimalOf(n \div 10), DigitChars[(n % 10) + 1])

\* The number a run of digits denotes.
RECURSIVE ValueOfDigits(_)
ValueOfDigits(ds) ==
    IF ds = << >> THEN 0
    ELSE ValueOfDigits(Take(ds, Len(ds) - 1)) * 10 + FromByte(ds[Len(ds)])

JSigns == {<< >>, << "-" >>}
JFractions == {<< >>, << ".", "0" >>, << ".", "5" >>, << ".", "0", "0" >>,
               << ".", "0", "5" >>, << ".", "5", "0" >>, << ".", "2", "5" >>,
               << ".", "2", "5", "6" >>, << ".", "1", "0", "1" >>}
JExponents == {<< >>, << "e", "0" >>, << "e", "1" >>, << "e", "2" >>,
               << "e", "3" >>, << "e", "5" >>, << "E", "+", "1" >>,
               << "e", "-", "1" >>, << "e", "-", "2" >>, << "e", "-", "0" >>}

InitJsonNum ==
    /\ \E n \in (0..JDense) \cup JBoundary, sg \in JSigns, fr \in JFractions,
          ex \in JExponents, ty \in JTypes, build \in Builds :
          /\ j_in = [name |-> "num", ty |-> ty, build |-> build,
                     sign |-> sg, int |-> DecimalOf(n), frac |-> fr, exp |-> ex]
          /\ j_p = [s |-> sg \o DecimalOf(n) \o fr \o ex, pos |-> 0]
    /\ j_res = [ok |-> FALSE]
    /\ j_pc = "start"
    /\ RdIdle /\ IntIdle /\ NetIdle /\ WIdle /\ BIdle /\ CIdle

\* The result of a parse: the outcome, the parts that were decoded (decoded is
\* FALSE when decoding itself failed) and the sign decode_signed saw.
NumResult(parts, neg, c) ==
    [ok |-> parts.ok /\ c.ok,
     err |-> IF ~parts.ok THEN parts.err ELSE c.err,
     v |-> IF parts.ok THEN c.v ELSE 0,
     decoded |-> parts.ok, parts |-> parts, is_negative |-> neg]

\* parse_unsigned: `decode_unsigned(p)?.compute()`
UnsignedResult(parts, ty) == NumResult(parts, FALSE, PartsCompute(parts, ty))

\* parse_signed: `decode_signed(p)?.compute()`
SignedResult(sp, ty) ==
    NumResult(sp.parts, sp.is_negative, SignedPartsCompute(sp, ty))

\* fn parse_unsigned
ParseUnsigned ==
    /\ j_pc = "start" /\ j_in.name = "num" /\ j_in.ty \in UnsignedTypes
    /\ j_res' = UnsignedResult(DecodeUnsigned(j_p, j_in.ty, j_in.build),
                               j_in.ty)
    /\ j_p' = [j_p EXCEPT !.pos = j_res'.parts.pos]
    /\ j_pc' = "done"
    /\ UNCHANGED << j_in, rdVars, intVars, netVars, wVars, bVars, cVars >>

\* fn parse_signed
ParseSigned ==
    /\ j_pc = "start" /\ j_in.name = "num" /\ j_in.ty \in SignedTypes
    /\ j_res' = SignedResult(DecodeSigned(j_p, j_in.ty, j_in.build), j_in.ty)
    /\ j_p' = [j_p EXCEPT !.pos = j_res'.parts.pos]
    /\ j_pc' = "done"
    /\ UNCHANGED << j_in, rdVars, intVars, netVars, wVars, bVars, cVars >>

NextJsonNum == ParseUnsigned \/ ParseSigned

SpecJsonNum == InitJsonNum /\ [][NextJsonNum]_vars

\* ------------------------------------------------------------------------
\* musli-json/src/de.rs: the object key decoder
\* ------------------------------------------------------------------------

\* The \u00XX escapes of the digits and of the minus sign; an escape is one
\* element of the text.
EscapedDigits == << "\\u0030", "\\u0031", "\\u0032", "\\u0033", "\\u0034",
                    "\\u0035", "\\u0036", "\\u0037", "\\u0038", "\\u0039" >>
EscapedMinus == "\\u002d"
IsEscape(b) == b = EscapedMinus \/ \E i \in 1..10 : EscapedDigits[i] = b
Unescape(b) ==
    IF b = EscapedMinus THEN "-"
    ELSE IF \E i \in 1..10 : EscapedDigits[i] = b
    THEN DigitChars[CHOOSE i \in 1..10 : EscapedDigits[i] = b]
    ELSE b
Escape(b) ==
    IF b = "-" THEN EscapedMinus
    ELSE IF IsDigit(b) THEN EscapedDigits[FromByte(b) + 1]
    ELSE b

Whitespace == {" "}

\* Parser::skip_whitespace
RECURSIVE SkipWhitespace(_)
SkipWhitespace(p) ==
    IF PeekByte(p) \in Whitespace THEN SkipWhitespace(ParserSkip(p, 1)) ELSE p

\* Token::from_byte
TokenFromByte(b) ==
    CASE b = "eof" -> "Eof"
      [] b = "{" -> "OpenBrace"
      [] b = "}" -> "CloseBrace"
      [] b = "[" -> "OpenBracket"
      [] b = "]" -> "CloseBracket"
      [] b = "," -> "Comma"
      [] b = ":" -> "Colon"
      [] b = "\"" -> "String"
      [] b = "n" -> "Null"
      [] b = "t" -> "True"
      [] b = "f" -> "False"
      [] b = "-" \/ IsDigit(b) -> "Number"
      [] OTHER -> "Error"

\* Parser::peek: whitespace is skipped, then the next byte is classified.
\* The call leaves the parser at that byte.
Peek(p) == [token |-> TokenFromByte(PeekByte(SkipWhitespace(p))),
            p |-> SkipWhitespace(p)]

\* Parser::parse_string, called after the opening quote: the contents up to
\* the closing quote, Borrowed when no escape was met and Scratch (unescaped)
\* otherwise.
RECURSIVE ParseStringLoop(_, _, _)
ParseStringLoop(p, bytes, escaped) ==
    IF p.pos >= Len(p.s)
    THEN [ok |-> FALSE, kind |-> "Eof", bytes |-> << >>, pos |-> p.pos]
    ELSE LET b == p.s[p.pos + 1]
         IN  IF b = "\""
             THEN [ok |-> TRUE,
                   kind |-> IF escaped THEN "Scratch" ELSE "Borrowed",
                   bytes |-> bytes, pos |-> p.pos + 1]
             ELSE ParseStringLoop(ParserSkip(p, 1), Append(bytes, Unescape(b)),
                                  escaped \/ IsEscape(b))
ParseString(p) == ParseStringLoop(p, << >>, FALSE)

\* SliceParser::new(bytes)
SliceParserNew(bytes) == [s |-> bytes, pos |-> 0]

KErr(err, at) ==
    [ok |-> FALSE, err |-> err, v |-> 0, kind |-> "", pos |-> at]

\* The value of decoded parts: `decode_unsigned(p)?.compute()`,
\* `decode_signed(p)?.compute()`.
UnsignedValue(parts, ty) ==
    IF ~parts.ok THEN CErr(parts.err) ELSE PartsCompute(parts, ty)
SignedValue(sp, ty) ==
    IF ~sp.parts.ok THEN CErr(sp.parts.err) ELSE SignedPartsCompute(sp, ty)

\* KeyUnsignedVisitor::visit_any: the integer parser run over the contents.
KeyUnsignedVisitAny(bytes, ty, build) ==
    UnsignedValue(DecodeUnsigned(SliceParserNew(bytes), ty, build), ty)

\* KeySignedVisitor::visit_any
KeySignedVisitAny(bytes, ty, build) ==
    SignedValue(DecodeSigned(SliceParserNew(bytes), ty, build), ty)

\* A variant used to validate C16: the visitor refuses contents that come
\* from the scratch buffer.
KeyVisitBorrowedOnly(kind, bytes, ty, build) ==
    IF kind # "Borrowed" THEN CErr("InvalidType")
    ELSE IF ty \in UnsignedTypes THEN KeyUnsignedVisitAny(bytes, ty, build)
    ELSE KeySignedVisitAny(bytes, ty, build)

\* The visitor call of decode_escaped_bytes: visit_borrowed for Borrowed
\* contents (ValueVisitor's default hands them to visit_any), visit_any for
\* Scratch contents.
KeyVisit(kind, bytes, ty, build) ==
    IF ty \in UnsignedTypes THEN KeyUnsignedVisitAny(bytes, ty, build)
    ELSE KeySignedVisitAny(bytes, ty, build)

\* JsonDecoder::decode_string: the string is handed to the visitor, which
\* returns it.
StringVisited(str) ==
    IF ~str.ok THEN KErr(str.kind, str.pos)
    ELSE [ok |-> TRUE, err |-> "", v |-> 0, kind |-> str.kind, pos |-> str.pos]
DecodeString(p) ==
    IF Peek(p).token # "String" THEN KErr("ExpectedString", Peek(p).p.pos)
    ELSE StringVisited(ParseString(ParserSkip(Peek(p).p, 1)))

\* JsonKeyDecoder::decode_escaped_bytes
VisitedString(str, r) ==
    [ok |-> r.ok, err |-> r.err, v |-> r.v, kind |-> str.kind, pos |-> str.pos]
VisitString(str, ty, build) ==
    IF ~str.ok THEN KErr(str.kind, str.pos)
    ELSE VisitedString(str, KeyVisit(str.kind, str.bytes, ty, build))
DecodeEscapedBytes(p, ty, build) ==
    IF Peek(p).token # "String" THEN KErr("ExpectedString", Peek(p).p.pos)
    ELSE VisitString(ParseString(ParserSkip(Peek(p).p, 1)), ty, build)

\* Capability defaulting: the methods of the Decoder and Encoder protocols, the
\* ones an implementation overrides, and the default of the others.
DecoderMethods ==
    {"decode_unit", "decode_bool", "decode_char", "decode_u8", "decode_u16",
     "decode_u32", "decode_u64", "decode_u128", "decode_i8", "decode_i16",
     "decode_i32", "decode_i64", "decode_i128", "decode_usize", "decode_isize",
     "decode_f32", "decode_f64", "decode_array", "decode_bytes",
     "decode_string", "decode_option", "decode_pack", "decode_sequence",
     "decode_tuple", "decode_map", "decode_struct", "decode_tuple_struct",
     "decode_unit_struct", "decode_variant"}

\* impl Decoder for JsonKeyDecoder: the methods it defines.
KeyDecoderIntegerMethods ==
    {"decode_u8", "decode_u16", "decode_u32", "decode_u64", "decode_u128",
     "decode_i8", "decode_i16", "decode_i32", "decode_i64", "decode_i128",
     "decode_usize", "decode_isize"}
KeyDecoderOverrides == KeyDecoderIntegerMethods \cup {"decode_string"}

\* The kind a Decoder default names in its invalid-type error.
DecoderExpecting(method) ==
    CASE method = "decode_unit" -> "Unit"
      [] method = "decode_bool" -> "Bool"
      [] method = "decode_char" -> "Char"
      [] method \in {"decode_f32"} -> "Float32"
      [] method \in {"decode_f64"} -> "Float64"
      [] method = "decode_array" -> "Array"
      [] method = "decode_bytes" -> "Bytes"
      [] method = "decode_option" -> "Option"
      [] method = "decode_pack" -> "Pack"
      [] method = "decode_sequence" -> "Sequence"
      [] method = "decode_tuple" -> "Tuple"
      [] method = "decode_map" -> "Map"
      [] method = "decode_struct" -> "Struct"
      [] method = "decode_tuple_struct" -> "TupleStruct"
      [] method = "decode_unit_struct" -> "UnitStruct"
      [] method = "decode_variant" -> "Variant"
      [] OTHER -> "Number"

\* trait Encoder: its methods and the expecting:: kind each default names.
EncoderMethods ==
    {"encode_unit", "encode_bool", "encode_char", "encode_u8", "encode_u16",
     "encode_u32", "encode_u64", "encode_u128", "encode_i8", "encode_i16",
     "encode_i32", "encode_i64", "encode_i128", "encode_usize", "encode_isize",
     "encode_f32", "encode_f64", "encode_array", "encode_bytes",
     "encode_bytes_vectored", "encode_string", "encode_some", "encode_none",
     "encode_pack", "encode_sequence", "encode_tuple", "encode_map",
     "encode_struct", "encode_tuple_struct", "encode_unit_struct",
     "encode_variant"}

EncoderExpecting(method) ==
    CASE method = "encode_unit" -> "Unit"
      [] method = "encode_bool" -> "Bool"
      [] method = "encode_char" -> "Char"
      [] method = "encode_u8" -> "Unsigned8"
      [] method = "encode_u16" -> "Unsigned16"
      [] method = "encode_u32" -> "Unsigned32"
      [] method = "encode_u64" -> "Unsigned64"
      [] method = "encode_u128" -> "Unsigned128"
      [] method = "encode_i8" -> "Signed8"
      [] method = "encode_i16" -> "Signed16"
      [] method = "encode_i32" -> "Signed32"
      [] method = "encode_i64" -> "Signed64"
      [] method = "encode_i128" -> "Signed128"
      [] method = "encode_usize" -> "Usize"
      [] method = "encode_isize" -> "Isize"
      [] method = "encode_f32" -> "Float32"
      [] method = "encode_f64" -> "Float64"
      [] method = "encode_array" -> "Array"
      [] method = "encode_bytes" -> "Bytes"
      [] method = "encode_bytes_vectored" -> "Bytes"
      [] method = "encode_string" -> "String"
      [] method = "encode_some" -> "Option"
      [] method = "encode_none" -> "Option"
      [] method = "encode_pack" -> "Pack"
      [] method = "encode_sequence" -> "Sequence"
      [] method = "encode_tuple" -> "Tuple"
      [] method = "encode_map" -> "Map"
      [] method = "encode_struct" -> "Struct"
      [] method = "encode_tuple_struct" -> "TupleStruct"
      [] method = "encode_unit_struct" -> "UnitStruct"
      [] method = "encode_variant" -> "Variant"

\* The encoders of the model and the Encoder methods each one defines:
\* StorageEncoder defines all but encode_tuple_struct, Never defines none.
Encoders == {"StorageEncoder", "Never"}
EncoderOverrides(enc) ==
    IF enc = "StorageEncoder" THEN EncoderMethods \ {"encode_tuple_struct"}
    ELSE {}

\* A variant used to validate C20: the default of an unsupported kind
\* returns Ok.
DefaultAccepts(method, expected) ==
    [method |-> method, ok |-> TRUE, err |-> "", expected |-> "",
     v |-> 0, kind |-> "", pos |-> 0]

\* The default body of a protocol method:
\* Err(Self::Error::message(InvalidType::new(expecting::Kind, ..)))
DefaultInvalidType(method, expected) ==
    [method |-> method, ok |-> FALSE, err |-> "InvalidType",
     expected |-> expected, v |-> 0, kind |-> "", pos |-> 0]

\* ------------------------------------------------------------------------
\* The key driver: one object key, a JSON string holding a decimal
\* expansion, is handed to a JsonKeyDecoder and one Decoder method is called;
\* or one Encoder method that an encoder leaves to the default is called.
\* ------------------------------------------------------------------------

\* The values of an integer type that are tried as keys: every value of the
\* 8 bit types, and the values around zero and the limits of the 16 bit ones.
KeyValues(ty) ==
    CASE ty = "u8" -> 0..255
      [] ty = "i8" -> (0 - 128)..127
      [] ty = "u16" -> (0..JDense) \cup {n \in JBoundary : n <= 65535}
      [] ty = "i16" -> ((0 - JDense)..JDense)
                       \cup {n \in JBoundary : n <= 32767}
                       \cup {0 - n : n \in {m \in JBoundary : m <= 32768}}

SignedDecimalOf(k) ==
    IF k < 0 THEN << "-" >> \o DecimalOf(0 - k) ELSE DecimalOf(k)

EscapeAll(bytes) == [i \in 1..Len(bytes) |-> Escape(bytes[i])]

Deliveries == {"Borrowed", "Scratch"}

InitJsonKey ==
    /\ \E ty \in JTypes, build \in Builds, via \in Deliveries :
          \E k \in KeyValues(ty) :
             /\ j_in = [name |-> "key", ty |-> ty, build |-> build,
                        k |-> k, via |-> via]
             /\ j_p = [s |-> << "\"" >>
                             \o (IF via = "Scratch"
                                 THEN EscapeAll(SignedDecimalOf(k))
                                 ELSE SignedDecimalOf(k))
                             \o << "\"", ":" >>,
                       pos |-> 0]
    /\ j_res = [ok |-> FALSE]
    /\ j_pc = "start"
    /\ RdIdle /\ IntIdle /\ NetIdle /\ WIdle /\ BIdle /\ CIdle

KeyResult(method, r) ==
    [method |-> method, ok |-> r.ok, err |-> r.err, expected |-> "",
     v |-> r.v, kind |-> r.kind, pos |-> r.pos]

\* JsonKeyDecoder::decode_u8 / decode_u16 / decode_usize
KeyDecodeUnsigned ==
    /\ j_pc = "start" /\ j_in.name = "key" /\ j_in.ty \in UnsignedTypes
    /\ j_res' = KeyResult("decode_" \o j_in.ty,
                          DecodeEscapedBytes(j_p, j_in.ty, j_in.build))
    /\ j_p' = [j_p EXCEPT !.pos = j_res'.pos]
    /\ j_pc' = "done"
    /\ UNCHANGED << j_in, rdVars, intVars, netVars, wVars, bVars, cVars >>

\* JsonKeyDecoder::decode_i8 / decode_i16 / decode_isize
KeyDecodeSigned ==
    /\ j_pc = "start" /\ j_in.name = "key" /\ j_in.ty \in SignedTypes
    /\ j_res' = KeyResult("decode_" \o j_in.ty,
                          DecodeEscapedBytes(j_p, j_in.ty, j_in.build))
    /\ j_p' = [j_p EXCEPT !.pos = j_res'.pos]
    /\ j_pc' = "done"
    /\ UNCHANGED << j_in, rdVars, intVars, netVars, wVars, bVars, cVars >>

\* JsonKeyDecoder::decode_string -> JsonDecoder::decode_string
KeyDecodeString ==
    /\ j_pc = "start" /\ j_in.name = "key"
    /\ j_res' = KeyResult("decode_string", DecodeString(j_p))
    /\ j_p' = [j_p EXCEPT !.pos = j_res'.pos]
    /\ j_pc' = "done"
    /\ UNCHANGED << j_in, rdVars, intVars, netVars, wVars, bVars, cVars >>

\* Any Decoder method JsonKeyDecoder does not define: the trait's default.
KeyDecodeDefault ==
    /\ j_pc = "start" /\ j_in.name = "key"
    /\ \E method \in DecoderMethods \ KeyDecoderOverrides :
          j_res' = DefaultInvalidType(method, DecoderExpecting(method))
    /\ j_pc' = "done"
    /\ UNCHANGED << j_in, j_p, rdVars, intVars, netVars, wVars, bVars, cVars >>

\* Any Encoder method an encoder does not define: the trait's default.
EncodeDefault ==
    /\ j_pc = "start" /\ j_in.name = "key"
    /\ \E enc \in Encoders :
          \E method \in EncoderMethods \ EncoderOverrides(enc) :
             j_res' = DefaultInvalidType(method, EncoderExpecting(method))
    /\ j_pc' = "done"
    /\ UNCHANGED << j_in, j_p, rdVars, intVars, netVars, wVars, bVars, cVars >>

NextJsonKey ==
    \/ KeyDecodeUnsigned
    \/ KeyDecodeSigned
    \/ KeyDecodeString
    \/ KeyDecodeDefault
    \/ EncodeDefault

SpecJsonKey == InitJsonKey /\ [][NextJsonKey]_vars

\* Keys whose contents are a number followed by further bytes: "7x", "7 ", ...
KeyTails == {<< >>, << "x" >>, << " " >>}

InitJsonKeyTail ==
    /\ \E ty \in JTypes, build \in Builds, via \in Deliveries :
          \E k \in KeyValues(ty), tail \in KeyTails :
             /\ j_in = [name |-> "key", ty |-> ty, build |-> build,
                        k |-> k, via |-> via, tail |-> tail]
             /\ j_p = [s |-> << "\"" >>
                             \o (IF via = "Scratch"
                                 THEN EscapeAll(SignedDecimalOf(k))
                                 ELSE SignedDecimalOf(k))
                             \o tail \o << "\"", ":" >>,
                       pos |-> 0]
    /\ j_res = [ok |-> FALSE]
    /\ j_pc = "start"
    /\ RdIdle /\ IntIdle /\ NetIdle /\ WIdle /\ BIdle /\ CIdle

SpecJsonKeyTail == InitJsonKeyTail /\ [][NextJsonKey]_vars

\* ------------------------------------------------------------------------
\* musli-json/src/de.rs: skip_any, the array and the object decoder
\* ------------------------------------------------------------------------

\* The result of a call that returns Result<(), ParseError> or
\* Result<Option<..>, ParseError>: p is the parser after the call, some tells
\* Some from None.
SOk(p)        == [ok |-> TRUE, err |-> "", some |-> TRUE, p |-> p]
SNone(p)      == [ok |-> TRUE, err |-> "", some |-> FALSE, p |-> p]
SErr(err, p)  == [ok |-> FALSE, err |-> err, some |-> FALSE, p |-> p]

\* Token::is_value
IsValue(token) ==
    token \in {"OpenBrace", "OpenBracket", "String", "Number", "Null", "True",
               "False"}

\* Parser::parse_exact: the literal is consumed, or the error is returned.
ParseExact(p, lit, err) ==
    IF /\ p.pos + Len(lit) <= Len(p.s)
       /\ SubSeq(p.s, p.pos + 1, p.pos + Len(lit)) = lit
    THEN SOk(ParserSkip(p, Len(lit)))
    ELSE SErr(err, p)

\* Parser::consume_while(is_digit_nonzero) / consume_while(is_digit)
RECURSIVE ConsumeWhile(_, _)
ConsumeWhile(p, nonzero) ==
    IF (IF nonzero THEN IsDigitNonzero(PeekByte(p)) ELSE IsDigit(PeekByte(p)))
    THEN ConsumeWhile(ParserSkip(p, 1), nonzero)
    ELSE p

\* skip_number: the exponent.
SkipNumberExponent(p) ==
    IF PeekByte(p) \in {"e", "E"}
    THEN SOk(ConsumeWhile(IF PeekByte(ParserSkip(p, 1)) \in {"-", "+"}
                          THEN ParserSkip(p, 2) ELSE ParserSkip(p, 1), FALSE))
    ELSE SOk(p)

\* skip_number: the fraction.
SkipNumberFraction(p) ==
    SkipNumberExponent(IF PeekByte(p) = "."
                       THEN ConsumeWhile(ParserSkip(p, 1), FALSE) ELSE p)

\* A variant used to show what skip_number leaves behind: the integer part is
\* consumed with is_digit.
SkipNumberIntegerAllDigits(p) ==
    IF p.pos >= Len(p.s) THEN SErr("Eof", p)
    ELSE IF p.s[p.pos + 1] = "0" THEN SkipNumberFraction(ParserSkip(p, 1))
    ELSE IF IsDigitNonzero(p.s[p.pos + 1])
    THEN SkipNumberFraction(ConsumeWhile(ParserSkip(p, 1), FALSE))
    ELSE SErr("InvalidNumeric", ParserSkip(p, 1))

\* skip_number: the integer part, `p.consume_while(is_digit_nonzero)` after
\* a non-zero first digit.
SkipNumberInteger(p) ==
    IF p.pos >= Len(p.s) THEN SErr("Eof", p)
    ELSE IF p.s[p.pos + 1] = "0" THEN SkipNumberFraction(ParserSkip(p, 1))
    ELSE IF IsDigitNonzero(p.s[p.pos + 1])
    THEN SkipNumberFraction(ConsumeWhile(ParserSkip(p, 1), TRUE))
    ELSE SErr("InvalidNumeric", ParserSkip(p, 1))

\* fn skip_number
SkipNumber(p) ==
    SkipNumberInteger(IF PeekByte(p) = "-" THEN ParserSkip(p, 1) ELSE p)

\* string::skip_string, with the parser at the opening quote: everything up
\* to and including the closing quote is consumed.
RECURSIVE SkipStringLoop(_)
SkipStringLoop(p) ==
    IF p.pos >= Len(p.s) THEN SErr("Eof", p)
    ELSE IF p.s[p.pos + 1] = "\"" THEN SOk(ParserSkip(p, 1))
    ELSE SkipStringLoop(ParserSkip(p, 1))
SkipString(p) == SkipStringLoop(ParserSkip(p, 1))

\* JsonSequenceDecoder::new / JsonObjectDecoder::new: whitespace, then the
\* opening bracket or brace is consumed.
DecoderNew(p, open, err) ==
    IF Peek(p).token = open THEN SOk(ParserSkip(Peek(p).p, 1))
    ELSE SErr(err, Peek(p).p)

\* SequenceDecoder::next of JsonSequenceDecoder; first is the value
\* mem::take(&mut self.first) returned.
RECURSIVE SequenceNext(_, _)
SequenceNext(p, first) ==
    IF IsValue(Peek(p).token) THEN SOk(Peek(p).p)
    ELSE IF Peek(p).token = "Comma" /\ ~first
    THEN SequenceNext(ParserSkip(Peek(p).p, 1), first)
    ELSE IF Peek(p).token = "CloseBracket" THEN SNone(ParserSkip(Peek(p).p, 1))
    ELSE SErr("ExpectedValueOrCloseBracket", Peek(p).p)

\* PairsDecoder::next of JsonObjectDecoder
RECURSIVE ObjectNext(_, _)
ObjectNext(p, first) ==
    IF Peek(p).token = "String" THEN SOk(Peek(p).p)
    ELSE IF Peek(p).token = "Comma" /\ ~first
    THEN ObjectNext(ParserSkip(Peek(p).p, 1), first)
    ELSE IF Peek(p).token = "CloseBrace" THEN SNone(ParserSkip(Peek(p).p, 1))
    ELSE SErr("ExpectedValueOrCloseBrace", Peek(p).p)

\* The first next() on a decoder that new returned: first is true.
SequenceFirst(new) == IF ~new.ok THEN new ELSE SequenceNext(new.p, TRUE)
ObjectFirst(new)   == IF ~new.ok THEN new ELSE ObjectNext(new.p, TRUE)

\* The outcomes of reaching `todo!()`: the call never returns Ok, it aborts.
Todo(p) == SErr("Panic", p)

RECURSIVE JsonSkipAny(_)
RECURSIVE SkipAnyToken(_, _)
RECURSIVE SkipSequenceItems(_)
RECURSIVE SkipSequenceItem(_)
RECURSIVE SkipObjectPairs(_)
RECURSIVE SkipObjectKey(_)
RECURSIVE JsonSkipSecond(_)

\* JsonDecoder::skip_any, the `while let Some(item) = seq.next()?` loop; n is
\* the result of new or of next.
SkipSequenceItems(n) ==
    IF ~n.ok THEN n
    ELSE IF ~n.some THEN Todo(n.p)
    ELSE SkipSequenceItem(JsonSkipAny(n.p))
SkipSequenceItem(r) ==
    IF ~r.ok THEN r ELSE SkipSequenceItems(SequenceNext(r.p, FALSE))

\* JsonObjectPairDecoder::skip_second
JsonSkipSecond(p) ==
    IF Peek(p).token # "Colon" THEN SErr("ExpectedColon", Peek(p).p)
    ELSE JsonSkipAny(ParserSkip(Peek(p).p, 1))

\* JsonDecoder::skip_any, the `while let Some(pair) = object.next()?` loop.
SkipObjectPairs(n) ==
    IF ~n.ok THEN n
    ELSE IF ~n.some THEN Todo(n.p)
    ELSE SkipObjectKey(JsonSkipAny(n.p))
SkipObjectKey(k) ==
    IF ~k.ok THEN k
    ELSE IF ~JsonSkipSecond(k.p).ok THEN JsonSkipSecond(k.p)
    ELSE SkipObjectPairs(ObjectNext(JsonSkipSecond(k.p).p, FALSE))

\* JsonDecoder::skip_any, the match on the token peeked at p.
SkipAnyToken(token, p) ==
    CASE token = "OpenBrace" ->
            SkipObjectPairs(
                ObjectFirst(DecoderNew(p, "OpenBrace", "ExpectedOpenBrace")))
      [] token = "OpenBracket" ->
            SkipSequenceItems(
                SequenceFirst(DecoderNew(p, "OpenBracket",
                                         "ExpectedOpenBracket")))
      [] token = "Null" ->
            ParseExact(p, << "n", "u", "l", "l" >>, "ExpectedNull")
      [] token = "True" ->
            ParseExact(p, << "t", "r", "u", "e" >>, "ExpectedTrue")
      [] token = "False" ->
            ParseExact(p, << "f", "a", "l", "s", "e" >>, "ExpectedFalse")
      [] token = "Number" -> SkipNumber(p)
      [] token = "String" -> SkipString(p)
      [] OTHER -> SErr("ExpectedValue", p)

\* JsonDecoder::skip_any
JsonSkipAny(p) == SkipAnyToken(Peek(p).token, Peek(p).p)

\* ------------------------------------------------------------------------
\* The JSON decoder driver. An array or an object is walked with next(), each
\* element or pair being skipped before the following next(); or skip_any is
\* called on one value.
\* ------------------------------------------------------------------------

MaxUnits == 4   \* most elements, commas and spaces between '[' and ']'
MaxPairUnits == 3   \* most pairs, commas and spaces between '{' and '}'

\* What stands between the brackets: "1" is the number 1, "P" the pair
\* "a":1, "," a comma and " " a space.
UnitText(u) ==
    IF u = "P" THEN << "\"", "a", "\"", ":", "1" >> ELSE << u >>

RECURSIVE Flatten(_)
Flatten(us) ==
    IF us = << >> THEN << >> ELSE UnitText(Head(us)) \o Flatten(Tail(us))

UnitSeqs(alphabet, n) == UNION {[1..k -> alphabet] : k \in 0..n}

\* Well-formed JSON values handed to skip_any.
JsonValues ==
    {<< "0" >>, << "7" >>, << "1", "0" >>, << "-", "1", "2" >>,
     << "1", "0", "5" >>, << "1", ".", "5" >>, << "2", "e", "3" >>,
     << "1", ".", "2", "5", "E", "-", "2" >>, << "t", "r", "u", "e" >>,
     << "f", "a", "l", "s", "e" >>, << "n", "u", "l", "l" >>,
     << "\"", "\"" >>, << "\"", "a", "\"" >>, << "[", "]" >>,
     << "[", "1", "]" >>, << "[", "1", ",", "2", "]" >>,
     << "[", " ", "1", " ", ",", " ", "2", " ", "]" >>,
     << "[", "[", "]", "]" >>, << "[", "[", "1", "]", ",", "2", "]" >>,
     << "[", "\"", "a", "\"", ",", "n", "u", "l", "l", "]" >>,
     << "{", "}" >>, << "{", "\"", "a", "\"", ":", "1", "}" >>,
     << "{", "\"", "a", "\"", ":", "1", ",", "\"", "b", "\"", ":", "2", "}" >>,
     << "{", "\"", "a", "\"", ":", "[", "1", "]", "}" >>,
     << "{", "\"", "a", "\"", ":", "{", "\"", "a", "\"", ":", "t", "r", "u", "e", "}", "}" >>}

\* What follows the value in the text.
JsonTrailers == {<< >>, << "," >>, << " ", "]" >>}

InitJsonDe ==
    /\ \/ \E us \in UnitSeqs({"1", ",", " "}, MaxUnits) :
             /\ j_in = [name |-> "array", units |-> us, len |-> Len(us) + 2]
             /\ j_p = DecoderNew([s |-> << "[" >> \o Flatten(us) \o << "]" >>,
                                  pos |-> 0],
                                 "OpenBracket", "ExpectedOpenBracket").p
       \/ \E us \in UnitSeqs({"P", ",", " "}, MaxPairUnits) :
             /\ j_in = [name |-> "object", units |-> us,
                        len |-> Len(Flatten(us)) + 2]
             /\ j_p = DecoderNew([s |-> << "{" >> \o Flatten(us) \o << "}" >>,
                                  pos |-> 0],
                                 "OpenBrace", "ExpectedOpenBrace").p
       \/ \E v \in JsonValues, tr \in JsonTrailers :
             /\ j_in = [name |-> "value", units |-> << >>, len |-> Len(v)]
             /\ j_p = [s |-> v \o tr, pos |-> 0]
    /\ j_res = [ok |-> TRUE, err |-> "", some |-> TRUE, first |-> TRUE,
                calls |-> 0]
    /\ j_pc = IF j_in.name = "value" THEN "start" ELSE "next"
    /\ RdIdle /\ IntIdle /\ NetIdle /\ WIdle /\ BIdle /\ CIdle

\* The key was skipped: skip_second follows.
SkipPair(k) == IF ~k.ok THEN k ELSE JsonSkipSecond(k.p)

\* The decoder after a call: first was taken, the call is counted.
DeResult(r, res) ==
    [ok |-> r.ok, err |-> r.err, some |-> r.some, first |-> FALSE,
     calls |-> res.calls + 1]

\* Where the walk goes after next(): to the element, or to the end.
AfterNext(r) == IF r.ok /\ r.some THEN "item" ELSE "done"

\* SequenceDecoder::next of JsonSequenceDecoder
JsonSequenceNext ==
    /\ j_pc = "next" /\ j_in.name = "array"
    /\ j_res' = DeResult(SequenceNext(j_p, j_res.first), j_res)
    /\ j_p' = SequenceNext(j_p, j_res.first).p
    /\ j_pc' = AfterNext(j_res')
    /\ UNCHANGED << j_in, rdVars, intVars, netVars, wVars, bVars, cVars >>

\* item.skip_any() on the element next() returned.
JsonSequenceItem ==
    /\ j_pc = "item" /\ j_in.name = "array"
    /\ j_res' = [DeResult(JsonSkipAny(j_p), j_res) EXCEPT !.calls = j_res.calls]
    /\ j_p' = JsonSkipAny(j_p).p
    /\ j_pc' = IF j_res'.ok THEN "next" ELSE "done"
    /\ UNCHANGED << j_in, rdVars, intVars, netVars, wVars, bVars, cVars >>

\* PairsDecoder::next of JsonObjectDecoder
JsonObjectNext ==
    /\ j_pc = "next" /\ j_in.name = "object"
    /\ j_res' = DeResult(ObjectNext(j_p, j_res.first), j_res)
    /\ j_p' = ObjectNext(j_p, j_res.first).p
    /\ j_pc' = AfterNext(j_res')
    /\ UNCHANGED << j_in, rdVars, intVars, netVars, wVars, bVars, cVars >>

\* pair.first()?.skip_any()?; pair.skip_second()? on the pair next() returned.
JsonObjectPair ==
    /\ j_pc = "item" /\ j_in.name = "object"
    /\ j_res' = [DeResult(SkipPair(JsonSkipAny(j_p)), j_res)
                    EXCEPT !.calls = j_res.calls]
    /\ j_p' = SkipPair(JsonSkipAny(j_p)).p
    /\ j_pc' = IF j_res'.ok THEN "next" ELSE "done"
    /\ UNCHANGED << j_in, rdVars, intVars, netVars, wVars, bVars, cVars >>

\* JsonDecoder::skip_any on one value.
JsonSkipAnyValue ==
    /\ j_pc = "start" /\ j_in.name = "value"
    /\ j_res' = DeResult(JsonSkipAny(j_p), j_res)
    /\ j_p' = JsonSkipAny(j_p).p
    /\ j_pc' = "done"
    /\ UNCHANGED << j_in, rdVars, intVars, netVars, wVars, bVars, cVars >>

NextJsonDe ==
    \/ JsonSequenceNext
    \/ JsonSequenceItem
    \/ JsonObjectNext
    \/ JsonObjectPair
    \/ JsonSkipAnyValue

SpecJsonDe == InitJsonDe /\ [][NextJsonDe]_vars

\* ---- skip_number over the number literals ----

\* integer::skip_number(p) on a literal of InitJsonNum
JsonSkipNumber ==
    /\ j_pc = "start" /\ j_in.name = "num"
    /\ j_res' = SkipNumber(j_p)
    /\ j_p' = j_res'.p
    /\ j_pc' = "skipped"
    /\ UNCHANGED << j_in, rdVars, intVars, netVars, wVars, bVars, cVars >>

NextJsonSkip == JsonSkipNumber

SpecJsonSkip == InitJsonNum /\ [][NextJsonSkip]_vars

\* ------------------------------------------------------------------------
\* Storage byte strings: StorageEncoder::encode_bytes, encode_bytes_vectored
\* and encode_string (musli-storage/src/en.rs), over the length encodings of
\* musli-storage/src/integer_encoding.rs
\* ------------------------------------------------------------------------

\* The length encodings L: Variable, and FixedLength<L, B> for a length type
\* of one or two bytes in either byte order (usize is 16 bits here).
LengthEncodings ==
    {[kind |-> "Variable", bits |-> 0, order |-> "none"]}
    \cup {[kind |-> "FixedLength", bits |-> b, order |-> o] :
             b \in {8, 16}, o \in {"BigEndian", "LittleEndian"}}

\* The bytes of value, least significant first, in n bytes.
RECURSIVE ToLeBytes(_, _)
ToLeBytes(value, n) ==
    IF n = 0 THEN << >>
    ELSE << value % 256 >> \o ToLeBytes(value \div 256, n - 1)

RECURSIVE FromLeBytes(_)
FromLeBytes(bytes) ==
    IF bytes = << >> THEN 0
    ELSE Head(bytes) + 256 * FromLeBytes(Tail(bytes))

RECURSIVE Reversed(_)
Reversed(s) ==
    IF s = << >> THEN << >> ELSE Reversed(Tail(s)) \o << Head(s) >>

\* ByteOrderIo::write_bytes::<_, B> and read_bytes::<_, B> of an n-byte
\* unsigned.
ByteOrderWriteBytes(value, n, order) ==
    IF order = "BigEndian" THEN Reversed(ToLeBytes(value, n))
    ELSE ToLeBytes(value, n)

ByteOrderReadBytes(s, n, order) ==
    IF ~SliceReadBytes(s, n).ok
    THEN [ok |-> FALSE, value |-> 0, r |-> SliceReadBytes(s, n).r]
    ELSE [ok |-> TRUE,
          value |-> FromLeBytes(IF order = "BigEndian"
                                THEN Reversed(SliceReadBytes(s, n).out)
                                ELSE SliceReadBytes(s, n).out),
          r |-> SliceReadBytes(s, n).r]

\* impl UsizeEncoding for FixedLength<L, B>: encode_usize. value.try_into()
\* fails when the length does not fit L, and nothing is written.
FixedLengthEncodeUsize(l, value) ==
    IF value >= Pow2(l.bits)
    THEN [ok |-> FALSE, bytes |-> << >>]
    ELSE [ok |-> TRUE, bytes |-> ByteOrderWriteBytes(value, l.bits \div 8, l.order)]

FixedLengthDecodeUsize(l, s) == ByteOrderReadBytes(s, l.bits \div 8, l.order)

\* L::encode_usize and L::decode_usize
EncodeUsize(l, value) ==
    IF l.kind = "Variable"
    THEN [ok |-> TRUE, bytes |-> VariableEncodeUsize(value)]
    ELSE FixedLengthEncodeUsize(l, value)

DecodeUsize(l, s) ==
    IF l.kind = "Variable" THEN VariableDecodeUsize(s)
    ELSE FixedLengthDecodeUsize(l, s)

\* Writer::write_bytes on a buffer: the bytes are appended.
WriteBytes(w, bytes) == w \o bytes

\* The result of an encoder method: the writer's buffer afterwards.
BOk(w)  == [ok |-> TRUE, err |-> "", bytes |-> w]
BErr(w) == [ok |-> FALSE, err |-> "custom", bytes |-> w]

\* The writer after the length prefix, then the rest of the method.
AfterLength(n, w, bytes) ==
    IF ~n.ok THEN BErr(w)
    ELSE BOk(WriteBytes(WriteBytes(w, n.bytes), bytes))

\* StorageEncoder::encode_bytes
StorageEncodeBytes(l, w, bytes) ==
    AfterLength(EncodeUsize(l, Len(bytes)), w, bytes)

\* vectors.into_iter().map(|v| v.len()).sum()
RECURSIVE SumLen(_)
SumLen(vectors) ==
    IF vectors = << >> THEN 0
    ELSE (Len(Head(vectors)) + SumLen(Tail(vectors))) % Pow2(Bits("usize"))

\* for bytes in vectors { self.writer.write_bytes(bytes)?; }
RECURSIVE WriteAll(_, _)
WriteAll(w, vectors) ==
    IF vectors = << >> THEN w
    ELSE WriteAll(WriteBytes(w, Head(vectors)), Tail(vectors))

AfterLengthVectored(n, w, vectors) ==
    IF ~n.ok THEN BErr(w)
    ELSE BOk(WriteAll(WriteBytes(w, n.bytes), vectors))

\* A variant that prefixes every slice with its own length.
RECURSIVE StorageEncodeBytesVectoredEach(_, _, _)
StorageEncodeBytesVectoredEach(l, w, vectors) ==
    IF vectors = << >> THEN BOk(w)
    ELSE IF ~StorageEncodeBytes(l, w, Head(vectors)).ok
         THEN StorageEncodeBytes(l, w, Head(vectors))
         ELSE StorageEncodeBytesVectoredEach(
                  l, StorageEncodeBytes(l, w, Head(vectors)).bytes, Tail(vectors))

\* StorageEncoder::encode_bytes_vectored
StorageEncodeBytesVectored(l, w, vectors) ==
    AfterLengthVectored(EncodeUsize(l, SumLen(vectors)), w, vectors)

\* The UTF-8 bytes of one code point below 2^16.
Utf8(cp) ==
    IF cp < 128 THEN << cp >>
    ELSE IF cp < 2048 THEN << 192 + (cp \div 64), 128 + (cp % 64) >>
    ELSE << 224 + (cp \div 4096), 128 + ((cp \div 64) % 64), 128 + (cp % 64) >>

\* str::as_bytes; str::len is the length of these bytes.
RECURSIVE StrAsBytes(_)
StrAsBytes(string) ==
    IF string = << >> THEN << >>
    ELSE Utf8(Head(string)) \o StrAsBytes(Tail(string))

StrLen(string) == Len(StrAsBytes(string))

\* A variant that writes the number of characters as the length.
StorageEncodeStringChars(l, w, string) ==
    AfterLength(EncodeUsize(l, Len(string)), w, StrAsBytes(string))

\* StorageEncoder::encode_string
StorageEncodeString(l, w, string) ==
    AfterLength(EncodeUsize(l, StrLen(string)), w, StrAsBytes(string))

\* ---- the driver of the byte strings ----

MaxSlices == 3   \* most slices of one encode_bytes_vectored call
MaxChars  == 3   \* longest string, in characters

\* n copies of the byte b.
Run(b, n) == [i \in 1..n |-> b]

\* The slices: empty, short, and of the lengths around the two-byte
\* continuation length (128) and, two together, around the one-byte fixed
\* length (256).
ByteSlices ==
    {<< >>, << 1 >>, << 2, 255 >>, Run(7, 127), Run(9, 128)}

\* The characters: one, two and three bytes of UTF-8 ("A", U+00E9, U+20AC).
Chars == {65, 233, 8364}

\* What the writer holds before the call.
Prefixes == {<< >>, << 170 >>}

InitBytes ==
    /\ \E l \in LengthEncodings, w \in Prefixes :
          \/ \E k \in 0..MaxSlices : \E vs \in [1..k -> ByteSlices] :
                b_in = [name |-> "encode_bytes_vectored", l |-> l, prefix |-> w,
                        slices |-> vs, string |-> << >>]
          \/ \E bs \in ByteSlices \cup {Run(3, 256)} :
                b_in = [name |-> "encode_bytes", l |-> l, prefix |-> w,
                        slices |-> << bs >>, string |-> << >>]
          \/ \E k \in 0..MaxChars : \E st \in [1..k -> Chars] :
                b_in = [name |-> "encode_string", l |-> l, prefix |-> w,
                        slices |-> << >>, string |-> st]
    /\ b_out = BOk(b_in.prefix)
    /\ b_pc = "start"
    /\ RdIdle /\ IntIdle /\ NetIdle /\ WIdle /\ JIdle /\ CIdle

\* encoder.encode_bytes(bytes)
EncodeBytes ==
    /\ b_pc = "start" /\ b_in.name = "encode_bytes"
    /\ b_out' = StorageEncodeBytes(b_in.l, b_out.bytes, b_in.slices[1])
    /\ b_pc' = "done"
    /\ UNCHANGED << b_in, rdVars, intVars, netVars, wVars, jVars, cVars >>

\* encoder.encode_bytes_vectored(vectors)
EncodeBytesVectored ==
    /\ b_pc = "start" /\ b_in.name = "encode_bytes_vectored"
    /\ b_out' = StorageEncodeBytesVectored(b_in.l, b_out.bytes, b_in.slices)
    /\ b_pc' = "done"
    /\ UNCHANGED << b_in, rdVars, intVars, netVars, wVars, jVars, cVars >>

\* encoder.encode_string(string)
EncodeString ==
    /\ b_pc = "start" /\ b_in.name = "encode_string"
    /\ b_out' = StorageEncodeString(b_in.l, b_out.bytes, b_in.string)
    /\ b_pc' = "done"
    /\ UNCHANGED << b_in, rdVars, intVars, netVars, wVars, jVars, cVars >>

NextBytes == EncodeBytes \/ EncodeBytesVectored \/ EncodeString

SpecBytes == InitBytes /\ [][NextBytes]_vars

\* ------------------------------------------------------------------------
\* Encoding into a caller-supplied writer that can refuse bytes:
\* Wrap<W: io::Write> (musli-binary-common/src/io.rs, musli-common/src/wrap.rs)
\* under StorageEncoder (musli-storage/src/en.rs)
\* ------------------------------------------------------------------------

\* The io::Write underneath: what it holds, how many more bytes it takes, and
\* what write_all does with a buffer it cannot take whole: "partial" keeps
\* the bytes that still fit (as io::Write for &mut [u8] does), "atomic" keeps
\* none of them.
IoKinds == {"partial", "atomic"}

IoWriter(bytes, room, kind) == [bytes |-> bytes, room |-> room, kind |-> kind]

\* io::Write::write_all
IoWriteAll(w, bytes) ==
    IF Len(bytes) <= w.room
    THEN [ok |-> TRUE,
          w |-> IoWriter(w.bytes \o bytes, w.room - Len(bytes), w.kind)]
    ELSE [ok |-> FALSE,
          w |-> IF w.kind = "partial"
                THEN IoWriter(w.bytes \o Take(bytes, w.room), 0, w.kind)
                ELSE w]

\* impl Writer for Wrap<W>: write_bytes
WrapWriteBytes(w, bytes) == IoWriteAll(w, bytes)

\* Writer::write_byte
WrapWriteByte(w, b) == WrapWriteBytes(w, << b >>)

\* The second write of a method, after the `?` on the first.
ThenWriteBytes(r, bytes) ==
    IF ~r.ok THEN r ELSE WrapWriteBytes(r.w, bytes)

\* L::encode_usize(self.writer.deref_writer_mut(), value)
WrapEncodeUsize(l, w, value) ==
    IF ~EncodeUsize(l, value).ok THEN [ok |-> FALSE, w |-> w]
    ELSE WrapWriteBytes(w, EncodeUsize(l, value).bytes)

\* StorageEncoder::encode_bytes and encode_string on the wrapped writer.
WrapEncodeBytes(l, w, bytes) ==
    ThenWriteBytes(WrapEncodeUsize(l, w, Len(bytes)), bytes)

WrapEncodeString(l, w, string) ==
    ThenWriteBytes(WrapEncodeUsize(l, w, StrLen(string)), StrAsBytes(string))

\* seq.encode_next()?.encode_u8(b)? for every element, in order.
RECURSIVE WrapEncodeElements(_, _)
WrapEncodeElements(r, elements) ==
    IF ~r.ok \/ elements = << >> THEN r
    ELSE WrapEncodeElements(WrapWriteByte(r.w, Head(elements)), Tail(elements))

\* StorageEncoder::encode_sequence(len), the elements, finish().
WrapEncodeSequence(l, w, elements) ==
    WrapEncodeElements(WrapEncodeUsize(l, w, Len(elements)), elements)

\* ---- the driver ----

MaxRoom == 4   \* most bytes the writer still takes

\* Short payloads.
FailPayloads == UNION {[1..k -> {1, 255}] : k \in 0..2}

InitFail ==
    /\ \E l \in LengthEncodings, w \in Prefixes, room \in 0..MaxRoom,
          kind \in IoKinds :
          \/ \E name \in {"encode_bytes", "encode_sequence"}, bs \in FailPayloads :
                b_in = [name |-> name, l |-> l, prefix |-> w, room |-> room,
                        kind |-> kind, slices |-> << bs >>, string |-> << >>]
          \/ \E k \in 0..2 : \E st \in [1..k -> Chars] :
                b_in = [name |-> "encode_string", l |-> l, prefix |-> w,
                        room |-> room, kind |-> kind,
                        slices |-> << >>, string |-> st]
    /\ b_out = [ok |-> TRUE, w |-> IoWriter(b_in.prefix, b_in.room, b_in.kind)]
    /\ b_pc = "start"
    /\ RdIdle /\ IntIdle /\ NetIdle /\ WIdle /\ JIdle /\ CIdle

\* encoding.encode(wrap(io), bytes)
FailEncodeBytes ==
    /\ b_pc = "start" /\ b_in.name = "encode_bytes"
    /\ b_out' = WrapEncodeBytes(b_in.l, b_out.w, b_in.slices[1])
    /\ b_pc' = "done"
    /\ UNCHANGED << b_in, rdVars, intVars, netVars, wVars, jVars, cVars >>

\* encoding.encode(wrap(io), string)
FailEncodeString ==
    /\ b_pc = "start" /\ b_in.name = "encode_string"
    /\ b_out' = WrapEncodeString(b_in.l, b_out.w, b_in.string)
    /\ b_pc' = "done"
    /\ UNCHANGED << b_in, rdVars, intVars, netVars, wVars, jVars, cVars >>

\* encoding.encode(wrap(io), sequence of u8)
FailEncodeSequence ==
    /\ b_pc = "start" /\ b_in.name = "encode_sequence"
    /\ b_out' = WrapEncodeSequence(b_in.l, b_out.w, b_in.slices[1])
    /\ b_pc' = "done"
    /\ UNCHANGED << b_in, rdVars, intVars, netVars, wVars, jVars, cVars >>

NextFail == FailEncodeBytes \/ FailEncodeString \/ FailEncodeSequence

SpecFail == InitFail /\ [][NextFail]_vars

\* ------------------------------------------------------------------------
\* The rich diagnostic context: AllocContext
\* (musli-common/src/context/alloc_context.rs)
\* ------------------------------------------------------------------------

\* Step::Named(name), Step::Unnamed(index), Step::Struct(name), ...
Step(kind, v) == [kind |-> kind, v |-> v]

\* The error values E::from(error), E::custom(message), E::message(message).
ErrorFrom(error)      == [via |-> "from", of |-> error]
ErrorCustom(message)  == [via |-> "custom", of |-> message]
ErrorMessage(message) == [via |-> "message", of |-> message]

\* AllocContext::new, then include_type() when configured.
AllocContextNew(include) ==
    [mark |-> 0, errors |-> << >>, path |-> << >>, include_type |-> include]

\* self.path.push(step)
PathPush(c, step) == [c EXCEPT !.path = Append(@, step)]

\* self.path.pop(): nothing happens on an empty path.
PathPop(c) ==
    IF c.path = << >> THEN c
    ELSE [c EXCEPT !.path = SubSeq(@, 1, Len(@) - 1)]

\* A variant that leaves the step on the path.
PathPopKeeps(c) == c

\* self.errors.push((self.path.clone(), start..self.mark, error))
ErrorsPush(c, start, error) ==
    [c EXCEPT !.errors = Append(@, [path  |-> c.path,
                                    range |-> [start |-> start, end |-> c.mark],
                                    error |-> error])]

AllocContextReport(c, error) == ErrorsPush(c, c.mark, ErrorFrom(error))
AllocContextMarkedReport(c, mark, message) == ErrorsPush(c, mark, ErrorFrom(message))
AllocContextCustom(c, message) == ErrorsPush(c, c.mark, ErrorCustom(message))
AllocContextMessage(c, message) == ErrorsPush(c, c.mark, ErrorMessage(message))
AllocContextMarkedMessage(c, mark, message) ==
    ErrorsPush(c, mark, ErrorMessage(message))

\* mark() returns self.mark.
AllocContextMark(c) == c.mark

\* self.mark = self.mark.wrapping_add(n)
AllocContextAdvance(c, n) ==
    [c EXCEPT !.mark = (@ + n) % Pow2(Bits("usize"))]

AllocContextEnterNamedField(c, name)    == PathPush(c, Step("Named", name))
AllocContextEnterUnnamedField(c, index) == PathPush(c, Step("Unnamed", index))
AllocContextLeaveField(c)               == PathPop(c)
AllocContextEnterStruct(c, name) ==
    IF c.include_type THEN PathPush(c, Step("Struct", name)) ELSE c
AllocContextLeaveStruct(c) == IF c.include_type THEN PathPop(c) ELSE c
AllocContextEnterEnum(c, name) ==
    IF c.include_type THEN PathPush(c, Step("Enum", name)) ELSE c
AllocContextLeaveEnum(c) == IF c.include_type THEN PathPop(c) ELSE c
AllocContextEnterVariant(c, name)        == PathPush(c, Step("Variant", name))
AllocContextLeaveVariant(c)              == PathPop(c)
AllocContextEnterSequenceIndex(c, index) == PathPush(c, Step("Index", index))
AllocContextLeaveSequenceIndex(c)        == PathPop(c)
\* field.to_string() of a &str field is its text.
AllocContextEnterMapKey(c, field)        == PathPush(c, Step("Key", field))
AllocContextLeaveMapKey(c)               == PathPop(c)

\* iter(): one RichError per element of errors, in order, with its path,
\* range and error.
AllocContextIter(c) == c.errors

\* ---- the driver: any sequence of calls in which every leave matches the
\* most recent unmatched enter ----

MaxCalls  == 4   \* calls made on one context
MaxDepth  == 2   \* enters not yet left
MaxErrors == 2   \* reporting calls

\* The history: the enter calls not yet left, the sum of the advances, what
\* each reporting call was made with, and the number of calls.
HistoryNew(include) ==
    [include_type |-> include, open |-> << >>, advanced |-> 0,
     log |-> << >>, calls |-> 0]

\* The steps entered and not yet left; enter_struct and enter_enum name a
\* step only when type information is included.
RECURSIVE OpenSteps(_, _)
OpenSteps(open, include) ==
    IF open = << >> THEN << >>
    ELSE IF Head(open).call \in {"struct", "enum"} /\ ~include
         THEN OpenSteps(Tail(open), include)
         ELSE << Head(open).step >> \o OpenSteps(Tail(open), include)

Entered(g, call, step) ==
    [g EXCEPT !.open = Append(@, [call |-> call, step |-> step]),
              !.calls = @ + 1]

Left(g) ==
    [g EXCEPT !.open = SubSeq(@, 1, Len(@) - 1), !.calls = @ + 1]

Advanced(g, n) ==
    [g EXCEPT !.advanced = (@ + n) % Pow2(Bits("usize")), !.calls = @ + 1]

Reported(g, start, via, of) ==
    [g EXCEPT !.log = Append(@, [path  |-> OpenSteps(g.open, g.include_type),
                                 range |-> [start |-> start, end |-> g.advanced],
                                 error |-> [via |-> via, of |-> of]]),
              !.calls = @ + 1]

CanEnter  == cx_g.calls < MaxCalls /\ Len(cx_g.open) < MaxDepth
CanLeave(calls) ==
    /\ cx_g.calls < MaxCalls /\ cx_g.open # << >>
    /\ cx_g.open[Len(cx_g.open)].call \in calls
CanReport == cx_g.calls < MaxCalls /\ Len(cx_g.log) < MaxErrors

\* The n-th reporting call is made with the error (or message) n.
NextError == Len(cx_g.log) + 1

\* The marks a caller holds: what mark() returned at some earlier moment.
Marks == {0, 1}
Advances == {1, 65535}

InitContext ==
    /\ \E include \in BOOLEAN :
          /\ cx = AllocContextNew(include)
          /\ cx_g = HistoryNew(include)
    /\ RdIdle /\ IntIdle /\ NetIdle /\ WIdle /\ JIdle /\ BIdle

CxOther == << rdVars, intVars, netVars, wVars, jVars, bVars >>

EnterNamedField ==
    /\ CanEnter
    /\ cx' = AllocContextEnterNamedField(cx, "a")
    /\ cx_g' = Entered(cx_g, "field", Step("Named", "a"))
    /\ UNCHANGED CxOther

EnterUnnamedField ==
    /\ CanEnter
    /\ cx' = AllocContextEnterUnnamedField(cx, 0)
    /\ cx_g' = Entered(cx_g, "field", Step("Unnamed", 0))
    /\ UNCHANGED CxOther

LeaveField ==
    /\ CanLeave({"field"})
    /\ cx' = AllocContextLeaveField(cx)
    /\ cx_g' = Left(cx_g)
    /\ UNCHANGED CxOther

EnterStruct ==
    /\ CanEnter
    /\ cx' = AllocContextEnterStruct(cx, "S")
    /\ cx_g' = Entered(cx_g, "struct", Step("Struct", "S"))
    /\ UNCHANGED CxOther

LeaveStruct ==
    /\ CanLeave({"struct"})
    /\ cx' = AllocContextLeaveStruct(cx)
    /\ cx_g' = Left(cx_g)
    /\ UNCHANGED CxOther

EnterEnum ==
    /\ CanEnter
    /\ cx' = AllocContextEnterEnum(cx, "E")
    /\ cx_g' = Entered(cx_g, "enum", Step("Enum", "E"))
    /\ UNCHANGED CxOther

LeaveEnum ==
    /\ CanLeave({"enum"})
    /\ cx' = AllocContextLeaveEnum(cx)
    /\ cx_g' = Left(cx_g)
    /\ UNCHANGED CxOther

EnterVariant ==
    /\ CanEnter
    /\ cx' = AllocContextEnterVariant(cx, "V")
    /\ cx_g' = Entered(cx_g, "variant", Step("Variant", "V"))
    /\ UNCHANGED CxOther

LeaveVariant ==
    /\ CanLeave({"variant"})
    /\ cx' = AllocContextLeaveVariant(cx)
    /\ cx_g' = Left(cx_g)
    /\ UNCHANGED CxOther

EnterSequenceIndex ==
    /\ CanEnter
    /\ cx' = AllocContextEnterSequenceIndex(cx, 0)
    /\ cx_g' = Entered(cx_g, "index", Step("Index", 0))
    /\ UNCHANGED CxOther

LeaveSequenceIndex ==
    /\ CanLeave({"index"})
    /\ cx' = AllocContextLeaveSequenceIndex(cx)
    /\ cx_g' = Left(cx_g)
    /\ UNCHANGED CxOther

EnterMapKey ==
    /\ CanEnter
    /\ cx' = AllocContextEnterMapKey(cx, "k")
    /\ cx_g' = Entered(cx_g, "key", Step("Key", "k"))
    /\ UNCHANGED CxOther

LeaveMapKey ==
    /\ CanLeave({"key"})
    /\ cx' = AllocContextLeaveMapKey(cx)
    /\ cx_g' = Left(cx_g)
    /\ UNCHANGED CxOther

Advance ==
    /\ cx_g.calls < MaxCalls
    /\ \E n \in Advances :
          /\ cx' = AllocContextAdvance(cx, n)
          /\ cx_g' = Advanced(cx_g, n)
    /\ UNCHANGED CxOther

Report ==
    /\ CanReport
    /\ cx' = AllocContextReport(cx, NextError)
    /\ cx_g' = Reported(cx_g, cx_g.advanced, "from", NextError)
    /\ UNCHANGED CxOther

MarkedReport ==
    /\ CanReport
    /\ \E mark \in Marks :
          /\ cx' = AllocContextMarkedReport(cx, mark, NextError)
          /\ cx_g' = Reported(cx_g, mark, "from", NextError)
    /\ UNCHANGED CxOther

Custom ==
    /\ CanReport
    /\ cx' = AllocContextCustom(cx, NextError)
    /\ cx_g' = Reported(cx_g, cx_g.advanced, "custom", NextError)
    /\ UNCHANGED CxOther

Message ==
    /\ CanReport
    /\ cx' = AllocContextMessage(cx, NextError)
    /\ cx_g' = Reported(cx_g, cx_g.advanced, "message", NextError)
    /\ UNCHANGED CxOther

MarkedMessage ==
    /\ CanReport
    /\ \E mark \in Marks :
          /\ cx' = AllocContextMarkedMessage(cx, mark, NextError)
          /\ cx_g' = Reported(cx_g, mark, "message", NextError)
    /\ UNCHANGED CxOther

NextContext ==
    \/ EnterNamedField \/ EnterUnnamedField \/ LeaveField
    \/ EnterStruct \/ LeaveStruct \/ EnterEnum \/ LeaveEnum
    \/ EnterVariant \/ LeaveVariant
    \/ EnterSequenceIndex \/ LeaveSequenceIndex
    \/ EnterMapKey \/ LeaveMapKey
    \/ Advance
    \/ Report \/ MarkedReport \/ Custom \/ Message \/ MarkedMessage

SpecContext == InitContext /\ [][NextContext]_vars

\* The number of base-128 digits of u.
RECURSIVE Digits128(_)
Digits128(u) == IF u < 128 THEN 1 ELSE 1 + Digits128(u \div 128)

\* The zig-zag image of x as arithmetic: 0, -1, 1, -2, 2, ... -> 0, 1, 2, 3, 4, ...
ZigImage(x) == IF x >= 0 THEN 2 * x ELSE (0 - 2 * x) - 1

\* The types the Variable encoding writes in continuation form.
ContTypes == {"u16", "usize"}

\* C1: every IpAddr (V4 and V6) and every SocketAddr round-trips: decoding
\* what Encode wrote succeeds and returns the value that was encoded.
C1_NetRoundTrip ==
    net_pc = "done" => net_out = [ok |-> TRUE, value |-> net_in]

\* An IpAddr::V6 has been encoded with discriminant 0 and its decode, which
\* maps 0 to V4 and asks for an array of four octets, has failed.
C1_V6DecodedAsV4 ==
    /\ net_pc = "done"
    /\ net_in.ty = "IpAddr" /\ net_in.variant = "V6"
    /\ net_wire.tag.v = 0 /\ Len(net_wire.body.bytes) = 16
    /\ ~net_out.ok

\* C2: skip_any, started at the first byte of a well-formed encoded value
\* (byte, continuation integer, bytes, sequence, pair sequence, nested; small
\* and sentinel lengths), succeeds and consumes exactly the bytes of that one
\* value, leaving the reader at the first byte of what follows.
C2_SkipAnyConsumesOneValue ==
    (w_in.name = "skip" /\ w_pc = "done") =>
        /\ w_res.ok
        /\ w_reader.s = w_in.trailer
        /\ w_reader.pos = Len(WireEncode(w_in.value))

\* skip_any has been run on 42u16 (0x60, 0x2A) and has consumed the tag only.
C2_ContinuationPayloadLeft ==
    /\ w_in.name = "skip" /\ w_pc = "done"
    /\ w_in.value = VInt(42)
    /\ w_res.ok
    /\ w_reader.pos = 1
    /\ w_reader.s = << 42 >> \o w_in.trailer

\* What skip_any does get right: a value made of Byte, Prefixed and Sequence
\* tags only is consumed exactly, with embedded and with sentinel lengths.
SkipAnyOnPlainValues ==
    (w_in.name = "skip" /\ w_pc = "done" /\ PlainValue(w_in.value)) =>
        /\ w_res.ok
        /\ w_reader.s = w_in.trailer
        /\ w_reader.pos = Len(WireEncode(w_in.value))

\* C3: the encoding of a struct with three fields, decoded as the older
\* struct with the first two fields, succeeds, returns those two values and
\* consumes the whole input, the third value being skipped by skip_second.
C3_ForwardCompatible ==
    (/\ w_in.name = "struct" /\ w_in.conv = "PairSequence"
     /\ Len(w_in.fields) = 3
     /\ w_pc \in {"nodecoder", "failed", "end"}) =>
        /\ w_pc = "end"
        /\ w_res.ok
        /\ w_dec.got = << << 0, w_in.fields[1] >>, << 1, w_in.fields[2] >> >>
        /\ w_reader.s = << >>

\* decode_struct has refused the three-field struct's PairSequence tag.
C3_StructTagRefused ==
    /\ w_in.name = "struct" /\ w_in.conv = "PairSequence"
    /\ Len(w_in.fields) = 3
    /\ w_pc = "nodecoder" /\ ~w_res.ok
    /\ w_reader.pos = 1

\* C4: the tag of a map or struct records its number n of pairs;
\* decode_map / decode_struct on a tag recording n return a pairs decoder
\* whose next() yields exactly n pairs before None (size_hint being the pairs
\* still to come), and skip_any consumes the 2n values behind such a tag.
C4_TagRecordsPairs ==
    /\ (w_in.name \in {"struct", "map"} /\ w_in.count = Len(w_in.fields)) =>
          /\ w_pc # "nodecoder"
          /\ w_pc \in {"next", "pair", "end"} =>
                w_dec.remaining + w_dec.yielded = w_in.count
          /\ w_pc = "end" =>
                /\ w_dec.yielded = w_in.count
                /\ w_dec.got = PairsOf(w_in.fields)
    /\ (w_in.name = "skip" /\ w_in.value.k = "pairs" /\ w_pc = "done") =>
          /\ w_res.ok
          /\ w_reader.s = w_in.trailer

\* decode_map on a Sequence tag recording two pairs has handed out one pair
\* and then None, leaving the second pair unread.
C4_HalfThePairs ==
    /\ w_in.name = "map" /\ w_in.conv = "SequencePairs"
    /\ w_in.count = 2
    /\ w_pc = "end"
    /\ w_dec.yielded = 1
    /\ Len(w_reader.s) > 0

\* C5: a continuation-encoded unsigned value decodes to itself; of two values
\* written back to back the first decode returns the first and leaves exactly
\* the bytes of the second, the second decode returns the second and leaves
\* the buffer empty.
C5_ContinuationRoundTrip ==
    (int_in.mode = "rt" /\ int_in.ty \in ContTypes) =>
        /\ int_pc \in {"dec2", "done"} =>
              /\ int_out[1] = [ok |-> TRUE, value |-> int_in.vals[1]]
              /\ int_pc = "dec2" =>
                    /\ Len(int_buf.out) - Len(int_buf.data) = Digits128(int_in.vals[1])
                    /\ int_buf.data = Drop(int_buf.out, Digits128(int_in.vals[1]))
                    /\ Len(int_buf.data) = Digits128(int_in.vals[2])
        /\ int_pc = "done" =>
              /\ int_out[2] = [ok |-> TRUE, value |-> int_in.vals[2]]
              /\ int_buf.data = << >>

\* C5 witness: two multi-byte values of different lengths read back in order.
C5_Witness ==
    /\ int_in.mode = "rt" /\ int_in.ty = "u16" /\ int_pc = "done"
    /\ int_in.vals = << 16384, 128 >>
    /\ Len(int_buf.out) = 5
    /\ int_out = << [ok |-> TRUE, value |-> 16384], [ok |-> TRUE, value |-> 128] >>

\* C6: the continuation encoding of u is its base-128 digits, least
\* significant first, one per byte in the low seven bits, bit 7 set on every
\* byte but the last; 0 is the byte 0x00 and 1000 is [0xE8, 0x07].
C6_ContinuationWireForm ==
    (int_in.mode = "rt" /\ int_in.ty \in ContTypes /\ int_pc = "enc2") =>
        LET u == int_in.vals[1]
            s == int_buf.out
        IN  /\ Len(s) = Digits128(u)
            /\ \A i \in 1..Len(s) :
                  /\ s[i] \in 0..255
                  /\ s[i] % 128 = (u \div (128 ^ (i - 1))) % 128
                  /\ (s[i] >= 128) <=> (i < Len(s))
            /\ u = 0 => s = << 0 >>
            /\ u = 1000 => s = << 232, 7 >>

\* C6 witness: 1000 was written.
C6_Witness ==
    /\ int_in.mode = "rt" /\ int_in.ty \in ContTypes /\ int_pc = "enc2"
    /\ int_in.vals[1] = 1000
    /\ int_buf.out = << 232, 7 >>

\* C7: zig-zag maps the signed integers of width w one-to-one onto the
\* unsigned integers of width w: decode(encode(x)) = x, encode(decode(u)) = u,
\* the image is 2x for x >= 0 and -2x-1 for x < 0, with 0->0, -1->1, 1->2,
\* -2->3, 2->4, MAX -> UMAX-1, MIN -> UMAX.
C7_ZigZagBijection ==
    LET w == Bits(int_in.ty)
        x == int_in.vals[1]
    IN  /\ (int_in.mode = "zig" /\ int_pc \in {"zig_dec", "zig_done"}) =>
              /\ int_out[1] \in 0..(Pow2(w) - 1)
              /\ int_out[1] = ZigImage(x)
              /\ x = 0 => int_out[1] = 0
              /\ x = -1 => int_out[1] = 1
              /\ x = 1 => int_out[1] = 2
              /\ x = -2 => int_out[1] = 3
              /\ x = 2 => int_out[1] = 4
              /\ x = Pow2(w - 1) - 1 => int_out[1] = Pow2(w) - 2
              /\ x = 0 - Pow2(w - 1) => int_out[1] = Pow2(w) - 1
              /\ int_pc = "zig_done" => int_out[2] = x
        /\ (int_in.mode = "unzig" /\ int_pc \in {"unzig_enc", "unzig_done"}) =>
              /\ int_out[1] \in (0 - Pow2(w - 1))..(Pow2(w - 1) - 1)
              /\ int_pc = "unzig_done" => int_out[2] = x

\* C7 witness: the most negative 16-bit value went to the largest unsigned
\* value and back.
C7_Witness ==
    /\ int_in.mode = "zig" /\ int_in.ty = "i16" /\ int_pc = "zig_done"
    /\ int_in.vals[1] = -32768
    /\ int_out = << 65535, -32768 >>

\* C8 as claimed: the storage encoder writes every signed integer (i8, i16,
\* isize here) as the continuation encoding of its zig-zag image, and every
\* unsigned integer without zig-zag.
C8_AllSignedZigZag ==
    (int_in.mode = "rt" /\ int_pc = "enc2") =>
        /\ int_in.ty \in SignedTypes =>
              int_buf.out = ContEncode(ZigImage(int_in.vals[1]))
        /\ int_in.ty \in ContTypes =>
              int_buf.out = ContEncode(int_in.vals[1])

\* C8 as amended: i16 (and, by the same generic code, i32, i64, i128) is
\* written as the continuation encoding of its zig-zag image and read back
\* through zig-zag decode; i8 is written as its two's-complement byte and
\* isize as the continuation encoding of its two's-complement cast to usize,
\* neither through zig-zag; unsigned integers never pass through zig-zag.
\* Every one of them reads back as the value written.
C8_SignedEncodings ==
    int_in.mode = "rt" =>
        LET ty == int_in.ty
            a  == int_in.vals[1]
        IN  /\ int_pc = "enc2" =>
                  /\ ty = "i16" => int_buf.out = ContEncode(ZigImage(a))
                  /\ ty = "i8" => int_buf.out = << a % 256 >>
                  /\ ty = "isize" => int_buf.out = ContEncode(a % Pow2(Bits("isize")))
                  /\ ty \in ContTypes => int_buf.out = ContEncode(a)
                  /\ ty = "u8" => int_buf.out = << a >>
            /\ int_pc = "done" =>
                  /\ int_out = << [ok |-> TRUE, value |-> a],
                                  [ok |-> TRUE, value |-> int_in.vals[2]] >>
                  /\ ty = "i16" =>
                        /\ ContDecode(int_buf.out, 16).value = ZigImage(a)
                        /\ ZigDecode(ContDecode(int_buf.out, 16).value, 16) = a

\* C8 witness: a negative i16 written as its zig-zag image and read back.
C8_Witness ==
    /\ int_in.mode = "rt" /\ int_in.ty = "i16" /\ int_pc = "done"
    /\ int_in.vals = << -129, -1 >>
    /\ int_buf.out = << 129, 2, 1 >>
    /\ int_out[1].value = -129

\* C9: WithPosition::pos() starts at 0, equals the total number of bytes the
\* successful calls consumed, is raised by a successful call by exactly the
\* bytes that call consumed, is left alone by a failed call, and never
\* decreases.
C9_PosTracksConsumed ==
    last.op # "idle" =>
        /\ pos = Consumed
        /\ pos >= last.pos0
        /\ last.op = "new" => pos = 0
        /\ (last.op # "new" /\ last.ok) =>
              /\ pos - last.pos0 = last.len0 - Len(slice)
              /\ pos - last.pos0 = last.n
        /\ (last.op # "new" /\ ~last.ok) => pos = last.pos0

\* C9 witness: a call that succeeded after earlier calls had moved pos, and
\* consumed more than one byte.
C9_Witness ==
    /\ last.op = "read_array" /\ last.ok /\ last.n = 2 /\ last.pos0 = 1
    /\ pos = 3

\* C10: a call through limit(L) whose byte count exceeds the remaining budget
\* fails and leaves the underlying reader where it was; the bytes consumed
\* from the underlying reader never exceed L.
C10_LimitEnforcesBudget ==
    last.op \notin {"idle", "new"} =>
        /\ last.n > last.rem0 =>
              /\ ~last.ok
              /\ Len(slice) = last.len0
              /\ pos = last.pos0
        /\ Consumed <= rd0.limit

\* C10 witness: the budget is used up, and a call the underlying reader could
\* have served is refused.
C10_Witness ==
    /\ last.op \notin {"idle", "new"}
    /\ last.n > last.rem0 /\ last.len0 >= last.n
    /\ ~last.ok
    /\ rd0.limit > 0 /\ Consumed = rd0.limit

\* ------------------------------------------------------------------------
\* C11: when the digits of the integer part of a JSON number denote a value
\* larger than the maximum of the requested unsigned type, the parse returns
\* the overflow error: it returns no value and does not abort.
C11_PrefixOverflowIsError ==
    (/\ j_pc = "done" /\ j_in.name = "num"
     /\ j_in.ty \in UnsignedTypes /\ j_in.sign = << >>
     /\ ValueOfDigits(j_in.int) > JUnsignedMax(j_in.ty))
    => (~j_res.ok /\ j_res.err = "Overflow")

\* "256" parsed into u8 without overflow checks: 25 * 10 fits, 250 + 6 wraps
\* to 0 and the parse returns Ok(0).
C11_WrappedValue ==
    /\ j_pc = "done" /\ j_in.name = "num" /\ j_in.ty = "u8"
    /\ j_in.build = "release"
    /\ j_p.s = << "2", "5", "6" >>
    /\ j_res.ok /\ j_res.v = 0

\* The multiply-by-ten step is checked: an integer part whose digits but the
\* last fit and, times ten, exceed the maximum is refused with the overflow
\* error.
PrefixMultiplyOverflowIsError ==
    (/\ j_pc = "done" /\ j_in.name = "num"
     /\ j_in.ty \in UnsignedTypes /\ j_in.sign = << >>
     /\ ValueOfDigits(Take(j_in.int, Len(j_in.int) - 1)) <= JUnsignedMax(j_in.ty)
     /\ ValueOfDigits(Take(j_in.int, Len(j_in.int) - 1)) * 10
            > JUnsignedMax(j_in.ty))
    => (~j_res.ok /\ j_res.err = "Overflow")

\* a * 10^e, saturated just above cap: the result exceeds cap exactly when the
\* true product does.
RECURSIVE TimesPow10(_, _, _)
TimesPow10(a, e, cap) ==
    IF a > cap THEN cap + 1
    ELSE IF e = 0 THEN a
    ELSE TimesPow10(a * 10, e - 1, cap)

\* A parse of an unsigned literal whose parts were decoded.
JDecodedUnsigned ==
    /\ j_pc = "done" /\ j_in.name = "num"
    /\ j_in.ty \in UnsignedTypes /\ j_in.sign = << >>
    /\ j_res.decoded

\* ------------------------------------------------------------------------
\* C12: for a non-negative exponent e the parse fails with the decimal error
\* when e is smaller than the mantissa's digit count exp; otherwise it yields
\* base * 10^e + mantissa * 10^(e - exp), and fails with the overflow error
\* exactly when one of the products or the sum does not fit the target type.
C12_NonNegativeExponent ==
    (JDecodedUnsigned /\ ~j_res.parts.e.is_negative)
    => LET base == j_res.parts.base
           m == j_res.parts.m
           e == j_res.parts.e.value
           cap == JUnsignedMax(j_in.ty)
       IN  IF e < m.exp THEN ~j_res.ok /\ j_res.err = "Decimal"
           ELSE LET r == TimesPow10(base, e, cap)
                         + TimesPow10(m.value, e - m.exp, cap)
                IN  IF r <= cap THEN j_res.ok /\ j_res.v = r
                    ELSE ~j_res.ok /\ j_res.err = "Overflow"

\* "0e3" parsed into u8: 0 * 10^3 + 0 fits, yet 10^3 lies beyond the table and
\* 10.checked_pow(3) fails, so the parse returns the overflow error.
C12_ZeroTimesPowerOverflows ==
    /\ j_pc = "done" /\ j_in.name = "num" /\ j_in.ty = "u8"
    /\ j_p.s = << "0", "e", "3" >>
    /\ ~j_res.ok /\ j_res.err = "Overflow"

\* "1.0" parsed into u8: e = 0 is smaller than exp = 1, yet the parse
\* returns 1.
ZeroExponentIgnoresExp ==
    /\ j_pc = "done" /\ j_in.name = "num" /\ j_in.ty = "u8"
    /\ j_p.s = << "1", ".", "0" >>
    /\ j_res.parts.m.exp = 1 /\ j_res.parts.e.value = 0
    /\ j_res.ok /\ j_res.v = 1

\* With a positive exponent and a non-zero base or mantissa the composition is
\* the one C12 states.
CompositionOnNonZero ==
    (/\ JDecodedUnsigned /\ ~j_res.parts.e.is_negative
     /\ j_res.parts.e.value > 0
     /\ (j_res.parts.base # 0 \/ j_res.parts.m.value # 0))
    => LET base == j_res.parts.base
           m == j_res.parts.m
           e == j_res.parts.e.value
           cap == JUnsignedMax(j_in.ty)
       IN  IF e < m.exp THEN ~j_res.ok /\ j_res.err = "Decimal"
           ELSE LET r == TimesPow10(base, e, cap)
                         + TimesPow10(m.value, e - m.exp, cap)
                IN  IF r <= cap THEN j_res.ok /\ j_res.v = r
                    ELSE ~j_res.ok /\ j_res.err = "Overflow"

\* ------------------------------------------------------------------------
\* C13: for a negative exponent -e the parse fails with the decimal error if
\* the mantissa is non-zero or base is not divisible by 10^e; otherwise it
\* yields base / 10^e exactly.
C13_NegativeExponent ==
    (JDecodedUnsigned /\ j_res.parts.e.is_negative)
    => LET base == j_res.parts.base
           e == j_res.parts.e.value
       IN  IF j_res.parts.m.value # 0 \/ base % (10 ^ e) # 0
           THEN ~j_res.ok /\ j_res.err = "Decimal"
           ELSE j_res.ok /\ j_res.v * (10 ^ e) = base

\* "3000e-2" parsed into u16 is 30; "250e-2" fails with the decimal error.
C13_Witness ==
    /\ JDecodedUnsigned /\ j_res.parts.e.is_negative
    /\ j_res.parts.e.value = 2 /\ j_res.parts.base = 3000
    /\ j_res.parts.m.value = 0
    /\ j_res.ok /\ j_res.v = 30

\* ------------------------------------------------------------------------
\* C14: for a signed type of width w, with the magnitude m computed in the
\* unsigned type, a literal with a leading '-' yields -m when m <= 2^(w-1) and
\* the overflow error above it; a literal without a sign yields m when
\* m <= 2^(w-1) - 1 and the overflow error otherwise; a magnitude that failed
\* to compute fails the parse with its own error.
C14_SignedRange ==
    (/\ j_pc = "done" /\ j_in.name = "num" /\ j_in.ty \in SignedTypes
     /\ j_res.decoded)
    => LET mag == PartsCompute(j_res.parts, j_in.ty)
           half == Pow2(Bits(j_in.ty) - 1)
       IN  IF ~mag.ok THEN ~j_res.ok /\ j_res.err = mag.err
           ELSE IF j_in.sign = << "-" >>
           THEN IF mag.v <= half THEN j_res.ok /\ j_res.v = 0 - mag.v
                ELSE ~j_res.ok /\ j_res.err = "Overflow"
           ELSE IF mag.v <= half - 1 THEN j_res.ok /\ j_res.v = mag.v
                ELSE ~j_res.ok /\ j_res.err = "Overflow"

\* "-128" parsed into i8 is MIN, -128.
C14_Witness ==
    /\ j_pc = "done" /\ j_in.name = "num" /\ j_in.ty = "i8"
    /\ j_p.s = << "-", "1", "2", "8" >>
    /\ j_res.ok /\ j_res.v = 0 - 128

\* ------------------------------------------------------------------------
\* C15: when parsing a number fails with the overflow error, the parser
\* position is just past the last byte of the number token.
C15_OverflowConsumesToken ==
    (/\ j_pc = "done" /\ j_in.name = "num"
     /\ ~j_res.ok /\ j_res.err = "Overflow")
    => j_p.pos = Len(j_p.s)

\* "70000" parsed into u16: 7000 * 10 overflows before the fifth digit is
\* read and the error is returned with the parser after the fourth byte.
C15_StoppedInsideToken ==
    /\ j_pc = "done" /\ j_in.name = "num" /\ j_in.ty = "u16"
    /\ j_p.s = << "7", "0", "0", "0", "0" >>
    /\ ~j_res.ok /\ j_res.err = "Overflow"
    /\ j_p.pos = 4

\* An overflow found by Parts::compute or SignedParts::compute is reported
\* after the whole token was read.
ComputeOverflowConsumesToken ==
    (/\ j_pc = "done" /\ j_in.name = "num" /\ j_res.decoded
     /\ ~j_res.ok /\ j_res.err = "Overflow")
    => j_p.pos = Len(j_p.s)

\* ------------------------------------------------------------------------
\* C16: a JSON string whose contents are the decimal expansion of a value k
\* of an integer type T, handed to the object key decoder with T requested,
\* decodes to k, whether the contents are borrowed from the source or come
\* from the scratch buffer.
C16_IntegerKeyRoundTrip ==
    (/\ j_pc = "done" /\ j_in.name = "key"
     /\ j_res.method \in KeyDecoderIntegerMethods)
    => /\ j_res.ok
       /\ j_res.v = j_in.k
       /\ j_res.kind = j_in.via

\* The key "-32768", written with escapes and requested as i16, came from
\* the scratch buffer and decoded to -32768.
C16_Witness ==
    /\ j_pc = "done" /\ j_in.name = "key" /\ j_in.ty = "i16"
    /\ j_res.method = "decode_i16"
    /\ j_in.k = 0 - 32768 /\ j_res.kind = "Scratch"
    /\ j_res.ok /\ j_res.v = 0 - 32768

\* The kinds C20 lists as unsupported by the key decoder.
KeyUnsupportedMethods ==
    {"decode_unit", "decode_bool", "decode_char", "decode_f32", "decode_f64",
     "decode_bytes", "decode_array", "decode_option", "decode_pack",
     "decode_sequence", "decode_tuple", "decode_map", "decode_variant"}

\* The kind each Encoder method asks for.
RequestedKind ==
    {<< "encode_unit", "Unit" >>, << "encode_bool", "Bool" >>,
     << "encode_char", "Char" >>, << "encode_u8", "Unsigned8" >>,
     << "encode_u16", "Unsigned16" >>, << "encode_u32", "Unsigned32" >>,
     << "encode_u64", "Unsigned64" >>, << "encode_u128", "Unsigned128" >>,
     << "encode_i8", "Signed8" >>, << "encode_i16", "Signed16" >>,
     << "encode_i32", "Signed32" >>, << "encode_i64", "Signed64" >>,
     << "encode_i128", "Signed128" >>, << "encode_usize", "Usize" >>,
     << "encode_isize", "Isize" >>, << "encode_f32", "Float32" >>,
     << "encode_f64", "Float64" >>, << "encode_array", "Array" >>,
     << "encode_bytes", "Bytes" >>, << "encode_bytes_vectored", "Bytes" >>,
     << "encode_string", "String" >>, << "encode_some", "Option" >>,
     << "encode_none", "Option" >>, << "encode_pack", "Pack" >>,
     << "encode_sequence", "Sequence" >>, << "encode_tuple", "Tuple" >>,
     << "encode_map", "Map" >>, << "encode_struct", "Struct" >>,
     << "encode_tuple_struct", "TupleStruct" >>,
     << "encode_unit_struct", "UnitStruct" >>,
     << "encode_variant", "Variant" >>}

\* ------------------------------------------------------------------------
\* C20: on the object key decoder a request succeeds only for the integer
\* kinds and for strings, and a request for unit, bool, char, float, bytes,
\* fixed array, option, pack, sequence, tuple, map or variant returns an
\* invalid-type error; an Encoder method an encoder does not define returns an
\* invalid-type error that names the requested kind.
C20_CapabilityDefaulting ==
    (j_pc = "done" /\ j_in.name = "key")
    => /\ (j_res.method \in DecoderMethods /\ j_res.ok)
             => j_res.method \in KeyDecoderIntegerMethods \cup {"decode_string"}
       /\ j_res.method \in KeyUnsupportedMethods
             => (~j_res.ok /\ j_res.err = "InvalidType")
       /\ j_res.method \in EncoderMethods
             => /\ ~j_res.ok /\ j_res.err = "InvalidType"
                /\ << j_res.method, j_res.expected >> \in RequestedKind

\* A map was requested from the key decoder and refused as an invalid type.
C20_Witness ==
    /\ j_pc = "done" /\ j_in.name = "key"
    /\ j_res.method = "decode_map"
    /\ ~j_res.ok /\ j_res.err = "InvalidType" /\ j_res.expected = "Map"

\* The elements and commas of what stands between the brackets: spaces are
\* dropped and adjacent digits are one number.
RECURSIVE Tokens(_, _)
Tokens(us, prev) ==
    IF us = << >> THEN << >>
    ELSE IF Head(us) = " " THEN Tokens(Tail(us), " ")
    ELSE IF Head(us) = "1" /\ prev = "1" THEN Tokens(Tail(us), "1")
    ELSE << Head(us) >> \o Tokens(Tail(us), Head(us))

\* The JSON grammar for separators: nothing, or elements separated by exactly
\* one comma each.
WellSeparated(us) ==
    \/ Tokens(us, " ") = << >>
    \/ /\ Len(Tokens(us, " ")) % 2 = 1
       /\ \A i \in 1..Len(Tokens(us, " ")) :
             (i % 2 = 1) <=> (Tokens(us, " ")[i] # ",")

\* The walk over an array or object ended with next() returning Ok(None).
JsonWalkAccepted ==
    /\ j_pc = "done" /\ j_in.name \in {"array", "object"}
    /\ j_res.ok /\ ~j_res.some

\* ------------------------------------------------------------------------
\* C17: the array and object decoders accept only the JSON grammar for
\* separators: a walk in which every next() succeeded means that consecutive
\* elements (or pairs) were separated by exactly one comma, with no comma
\* before the first element and none before the closing bracket or brace.
C17_OnlySeparatedAccepted ==
    JsonWalkAccepted => WellSeparated(j_in.units)

\* "[1 1]": the second next() found a value where a comma had to be, and
\* returned it; the walk ended with Ok(None).
C17_MissingCommaAccepted ==
    /\ JsonWalkAccepted /\ j_in.name = "array"
    /\ j_in.units = << "1", " ", "1" >>
    /\ j_res.calls = 3

\* A comma before the first element or pair is refused.
LeadingCommaRefused ==
    (/\ j_pc = "done" /\ j_in.name \in {"array", "object"}
     /\ Tokens(j_in.units, " ") # << >>
     /\ Head(Tokens(j_in.units, " ")) = ",")
    => (~j_res.ok /\ j_res.calls = 1)

\* Everything the JSON grammar allows is accepted.
SeparatedIsAccepted ==
    (/\ j_pc = "done" /\ j_in.name \in {"array", "object"}
     /\ WellSeparated(j_in.units))
    => (j_res.ok /\ ~j_res.some /\ j_p.pos = Len(j_p.s))

\* ------------------------------------------------------------------------
\* C18: for every well-formed JSON value skip_any returns success after
\* consuming exactly that value.
C18_SkipAnyConsumesValue ==
    (j_pc = "done" /\ j_in.name = "value")
    => (j_res.ok /\ j_p.pos = j_in.len)

\* skip_any on "[]": the array was walked to its closing bracket and the
\* call aborted in todo!().
C18_ArrayReachesTodo ==
    /\ j_pc = "done" /\ j_in.name = "value"
    /\ j_p.s = << "[", "]" >>
    /\ ~j_res.ok /\ j_res.err = "Panic" /\ j_p.pos = 2

\* skip_any on "10": Ok is returned with only the "1" consumed.
NumberWithZeroLeftBehind ==
    /\ j_pc = "done" /\ j_in.name = "value"
    /\ j_p.s = << "1", "0" >>
    /\ j_res.ok /\ j_p.pos = 1

\* Literals, strings and numbers whose integer part has no zero after the
\* first digit are skipped exactly.
ScalarsSkipped ==
    (/\ j_pc = "done" /\ j_in.name = "value"
     /\ j_p.s[1] \notin {"[", "{"}
     /\ SkipNumberIntegerAllDigits(SliceParserNew(j_p.s)).p.pos = j_p.pos)
    => (j_res.ok /\ j_p.pos = j_in.len)

\* What the method appended to the writer.
BWritten == SubSeq(b_out.bytes, Len(b_in.prefix) + 1, Len(b_out.bytes))

\* The raw bytes of the argument of encode_bytes or encode_string.
BRaw ==
    IF b_in.name = "encode_string" THEN StrAsBytes(b_in.string)
    ELSE b_in.slices[1]

\* s1 ++ ... ++ sk
RECURSIVE Concatenation(_)
Concatenation(vectors) ==
    IF vectors = << >> THEN << >>
    ELSE Head(vectors) \o Concatenation(Tail(vectors))

\* ------------------------------------------------------------------------
\* C19: storage byte strings. encode_bytes and encode_string append the
\* length in the configured length encoding (reading it back with the
\* decoder of that encoding gives the number of raw bytes) followed by the
\* raw bytes and nothing else; encode_bytes_vectored over s1..sk leaves the
\* writer exactly as encode_bytes over s1 ++ ... ++ sk does.
C19_ByteStrings ==
    /\ (b_pc = "done" /\ b_in.name \in {"encode_bytes", "encode_string"}
        /\ b_out.ok)
       => /\ Take(b_out.bytes, Len(b_in.prefix)) = b_in.prefix
          /\ DecodeUsize(b_in.l, BWritten).ok
          /\ DecodeUsize(b_in.l, BWritten).value = Len(BRaw)
          /\ DecodeUsize(b_in.l, BWritten).r = BRaw
    /\ (b_pc = "done" /\ b_in.name = "encode_bytes_vectored")
       => b_out = StorageEncodeBytes(b_in.l, b_in.prefix,
                                     Concatenation(b_in.slices))

\* Three slices, 127 + 2 + 128 bytes, written under one two-byte
\* continuation length after what the writer already held.
C19_Witness ==
    /\ b_pc = "done" /\ b_in.name = "encode_bytes_vectored"
    /\ b_in.l.kind = "Variable" /\ b_out.ok
    /\ b_in.slices = << Run(7, 127), << 2, 255 >>, Run(9, 128) >>
    /\ b_in.prefix = << 170 >>
    /\ Len(BWritten) = 2 + 257

\* A string with multi-byte characters was written with its byte length.
C19_StringWitness ==
    /\ b_pc = "done" /\ b_in.name = "encode_string" /\ b_out.ok
    /\ b_in.string = << 65, 233, 8364 >>
    /\ BWritten = << 6, 65, 195, 169, 226, 130, 172 >>

\* A length that does not fit the fixed length type is an error, with nothing
\* written, for both encode_bytes and encode_bytes_vectored.
LengthErrorWritesNothing ==
    (b_pc = "done" /\ ~b_out.ok)
    => /\ b_out.bytes = b_in.prefix
       /\ b_in.l.kind = "FixedLength" /\ b_in.l.bits = 8
       /\ Len(IF b_in.name = "encode_bytes_vectored"
              THEN Concatenation(b_in.slices) ELSE BRaw) >= 256

LengthErrorReached ==
    /\ b_pc = "done" /\ ~b_out.ok /\ b_in.name = "encode_bytes_vectored"

\* The raw bytes of the value handed to encode.
FailRaw ==
    IF b_in.name = "encode_string" THEN StrAsBytes(b_in.string)
    ELSE b_in.slices[1]

\* The complete encoding of the value.
FailWhole ==
    EncodeUsize(b_in.l, Len(FailRaw)).bytes \o FailRaw

\* ------------------------------------------------------------------------
\* C21: no partial progress on failure. When an encode call on a
\* caller-supplied writer returns an error, the writer's contents are the
\* same as before the call.
C21_NoPartialProgress ==
    (b_pc = "done" /\ ~b_out.ok) => b_out.w.bytes = b_in.prefix

\* encode_string("A") into a writer with room for one byte that refuses a
\* buffer whole: the length prefix was accepted, the payload refused, and
\* the length byte stays in the writer.
C21_LengthLeftBehind ==
    /\ b_pc = "done" /\ ~b_out.ok
    /\ b_in.name = "encode_string" /\ b_in.string = << 65 >>
    /\ b_in.l.kind = "Variable" /\ b_in.kind = "atomic" /\ b_in.room = 1
    /\ b_out.w.bytes = b_in.prefix \o << 1 >>

\* The second element of a sequence was refused: the length and the first
\* element stay in the writer.
ElementLeftBehind ==
    /\ b_pc = "done" /\ ~b_out.ok
    /\ b_in.name = "encode_sequence" /\ b_in.slices[1] = << 1, 255 >>
    /\ b_in.l.kind = "Variable" /\ b_in.room = 2
    /\ b_out.w.bytes = b_in.prefix \o << 2, 1 >>

\* What a failed call leaves is what was there before and a proper prefix of
\* the value's encoding; a call that succeeds appends the whole encoding.
FailedCallLeavesPrefix ==
    b_pc = "done" =>
       /\ Take(b_out.w.bytes, Len(b_in.prefix)) = b_in.prefix
       /\ IF b_out.ok
          THEN b_out.w.bytes = b_in.prefix \o FailWhole
          ELSE /\ Len(b_out.w.bytes) < Len(b_in.prefix) + Len(FailWhole)
               /\ b_out.w.bytes
                     = b_in.prefix
                       \o Take(FailWhole, Len(b_out.w.bytes) - Len(b_in.prefix))

NestedPathReached ==
    /\ Len(AllocContextIter(cx)) = 1
    /\ AllocContextIter(cx)[1].path = << Step("Enum", "E"), Step("Variant", "V") >>

\* A marked report after an advance spans from the supplied mark to the
\* current one.
MarkedRangeReached ==
    /\ Len(AllocContextIter(cx)) = 1
    /\ AllocContextIter(cx)[1].range = [start |-> 0, end |-> 1]

\* Without type information enter_struct names no step.
StructNotNamedReached ==
    /\ ~cx.include_type /\ Len(cx_g.open) = 1 /\ cx_g.open[1].call = "struct"
    /\ Len(AllocContextIter(cx)) = 1 /\ AllocContextIter(cx)[1].path = << >>

\* ------------------------------------------------------------------------
\* C23: the tag byte layout is bit-exact. For every byte b,
\* TypeTag::from_byte(b).byte() = b; the kind is given by the upper three
\* bits alone (all ones giving Unknown) and the length field is the lower
\* five bits.
C23_TagByteRoundTrip ==
    /\ w_pc \in {"tag", "again"}
       => /\ w_res.tag.len = w_in.b % 32
          /\ (w_res.tag.kind = "Unknown") <=> (w_in.b >= 224)
          /\ \A c \in 0..255 :
                (c \div 32 = w_in.b \div 32)
                => TypeTagFromByte(c).kind = w_res.tag.kind
          /\ \A c \in 0..255 :
                (c \div 32 # w_in.b \div 32)
                => TypeTagFromByte(c).kind # w_res.tag.kind
    /\ w_pc = "again" => w_res.byte = w_in.b

\* The byte 0b111_10101 with the reserved kind came back unchanged.
C23_Witness ==
    /\ w_pc = "again" /\ w_in.b = 245
    /\ w_res.tag = [kind |-> "Unknown", len |-> 21]
    /\ w_res.byte = 245

\* The digits after the decimal point of the literal.
FractionDigits == Tail(j_in.frac)

\* The digits after the point up to and including the last non-zero one.
RECURSIVE WithoutTrailingZeros(_)
WithoutTrailingZeros(ds) ==
    IF ds = << >> \/ ds[Len(ds)] # "0" THEN ds
    ELSE WithoutTrailingZeros(Take(ds, Len(ds) - 1))

\* A literal with a fractional part was decoded into its parts.
JDecodedFraction ==
    /\ j_pc = "done" /\ j_in.name = "num" /\ j_res.decoded
    /\ j_in.frac # << >>

\* ------------------------------------------------------------------------
\* C24: JSON fraction capture. After a fractional part of d digits the
\* mantissa's exp equals d, the count of all digits after the decimal point,
\* trailing zeros included.
C24_ExpCountsAllDigits ==
    JDecodedFraction => j_res.parts.m.exp = Len(FractionDigits)

\* "1.50": two digits after the point, and the mantissa is 5 with exp 1.
C24_TrailingZeroNotCounted ==
    /\ JDecodedFraction
    /\ j_in.int = << "1" >> /\ j_in.frac = << ".", "5", "0" >>
    /\ j_in.exp = << >>
    /\ j_res.parts.m = [value |-> 5, exp |-> 1]

\* What the mantissa holds: a fraction of zeros only has value 0 and every
\* zero counted; otherwise the zeros after the last non-zero digit are
\* neither counted nor multiplied in.
MantissaOfFraction ==
    JDecodedFraction
    => IF WithoutTrailingZeros(FractionDigits) = << >>
       THEN j_res.parts.m = [value |-> 0, exp |-> Len(FractionDigits)]
       ELSE /\ j_res.parts.m.exp = Len(WithoutTrailingZeros(FractionDigits))
            /\ j_res.parts.m.value % Pow2(Bits(j_in.ty))
                 = ValueOfDigits(WithoutTrailingZeros(FractionDigits))
                     % Pow2(Bits(j_in.ty))

\* "1.00": both zeros are counted.
ZerosOnlyCounted ==
    /\ JDecodedFraction /\ j_in.frac = << ".", "0", "0" >>
    /\ j_res.parts.m = [value |-> 0, exp |-> 2]

\* The number decoder on the literal that was skipped.
DecodedSigned ==
    DecodeSigned(SliceParserNew(j_p.s), j_in.ty, j_in.build).parts

\* ------------------------------------------------------------------------
\* C25: skip_number skips a whole well-formed JSON number: it succeeds and
\* consumes exactly the bytes of the token, the same bytes decode_signed
\* consumes on that input, including integer parts with a 0 after the first
\* digit.
C25_SkipNumberSkipsToken ==
    j_pc = "skipped"
    => /\ j_res.ok
       /\ j_p.pos = Len(j_p.s)
       /\ (j_in.ty \in SignedTypes /\ DecodedSigned.ok)
          => DecodedSigned.pos = j_p.pos

\* "10": skip_number returned Ok after the "1", decode_signed read both
\* digits.
C25_StoppedAtZero ==
    /\ j_pc = "skipped" /\ j_res.ok
    /\ j_p.s = << "1", "0" >> /\ j_p.pos = 1
    /\ j_in.ty = "i8" /\ DecodedSigned.ok /\ DecodedSigned.pos = 2

\* skip_number never fails on these literals, and what it consumes is the
\* token when consume_while(is_digit) would have stopped at the same place
\* in the integer part.
SkipNumberWithoutInnerZero ==
    j_pc = "skipped"
    => /\ j_res.ok
       /\ (SkipNumberIntegerAllDigits(
               IF j_in.sign = << >> THEN SliceParserNew(j_p.s)
               ELSE ParserSkip(SliceParserNew(j_p.s), 1)).p.pos = j_p.pos)
          <=> (j_p.pos = Len(j_p.s))
       /\ (\A i \in 2..Len(j_in.int) : j_in.int[i] # "0")
          => j_p.pos = Len(j_p.s)

\* "-12.25e1" was skipped whole.
WholeNumberSkipped ==
    /\ j_pc = "skipped" /\ j_res.ok /\ j_p.pos = Len(j_p.s)
    /\ j_p.s = << "-", "1", "2", ".", "2", "5", "e", "1" >>

\* ------------------------------------------------------------------------
\* C26: every decode method of MaybeWireDecoder terminates: the call
\* returns, on a non-empty decoder with the result of the wrapped decoder's
\* method, on an empty decoder without reading.
C26_EveryCallReturns == <>(w_pc = "returned")

\* decode_bool on a non-empty payload holding Byte 1: the stack overflowed
\* with nothing read.
C26_BoolOverflowsStack ==
    /\ w_pc = "aborted" /\ w_in.method = "decode_bool" /\ ~w_in.empty
    /\ w_in.payload = << 33 >> /\ w_reader.pos = 0
    /\ w_dec.frames = MaxFrames

\* decode_unit_struct on a non-empty payload ends the same way.
UnitStructOverflowsStack ==
    /\ w_pc = "aborted" /\ w_in.method = "decode_unit_struct" /\ ~w_in.empty
    /\ w_dec.frames = MaxFrames

\* decode_bool and decode_unit_struct never return on a non-empty decoder
\* and never reach the wrapped decoder.
SelfCallNeverReturns ==
    (w_in.method \in {"decode_bool", "decode_unit_struct"} /\ ~w_in.empty)
    => (w_pc # "returned" /\ w_reader.pos = 0)

\* The methods that name self.decoder return the wrapped decoder's result;
\* on an empty decoder every method returns without reading, decode_bool
\* and decode_u8 with the error of check_empty.
DelegatingCallsReturn ==
    w_pc = "returned"
    => /\ w_in.empty
          => /\ w_reader.pos = 0
             /\ w_res.ok <=> w_in.method \in {"decode_unit", "decode_unit_struct"}
       /\ (~w_in.empty /\ w_in.method = "decode_u8")
          => /\ w_res.ok = WireDecodeU8([pos |-> 0, s |-> w_in.payload]).ok
             /\ w_res.value = WireDecodeU8([pos |-> 0, s |-> w_in.payload]).value
             /\ w_reader = WireDecodeU8([pos |-> 0, s |-> w_in.payload]).r
       /\ (~w_in.empty /\ w_in.method = "decode_unit")
          => \E noarm \in NoArmOutcomes :
                w_reader = WireDecodeUnit([pos |-> 0, s |-> w_in.payload], noarm).r

\* ------------------------------------------------------------------------
\* C27: after any sequence of calls on slice.with_position().limit(L) the
\* remaining budget is L minus the bytes consumed from the underlying reader,
\* and a failed call leaves the remaining budget as it was.
C27_BudgetIsLimitMinusConsumed ==
    last.op # "idle" =>
        /\ remaining = rd0.limit - Consumed
        /\ (last.op # "new" /\ ~last.ok) => remaining = last.rem0

\* A call within the budget that the underlying slice cannot serve: nothing is
\* consumed, and bounds_check has already taken the bytes off the budget.
C27_BudgetLostOnUnderflow ==
    /\ last.op \notin {"idle", "new"}
    /\ last.n <= last.rem0 /\ last.n > last.len0
    /\ ~last.ok
    /\ Len(slice) = last.len0 /\ pos = last.pos0
    /\ remaining = last.rem0 - last.n
    /\ remaining < rd0.limit - Consumed

\* What the code keeps: the budget never exceeds L minus the bytes consumed,
\* a call over the budget leaves it alone, and a call that succeeds takes
\* exactly the bytes it consumed.
BudgetAtMostLimitMinusConsumed ==
    last.op # "idle" =>
        /\ remaining <= rd0.limit - Consumed
        /\ (last.op # "new" /\ last.n > last.rem0) => remaining = last.rem0
        /\ (last.op # "new" /\ last.ok) =>
              /\ last.rem0 - remaining = last.n
              /\ last.rem0 - remaining = last.len0 - Len(slice)

\* A call refused by bounds_check, with the budget left as it was.
OverBudgetKeepsBudget ==
    /\ last.op \notin {"idle", "new"}
    /\ last.n > last.rem0 /\ ~last.ok
    /\ remaining = last.rem0 /\ remaining > 0

\* The exponent of the literal: its digits, and whether it carries a minus.
LiteralExponent ==
    IF j_in.exp = << >> THEN 0
    ELSE IF j_in.exp[2] \in {"+", "-"} THEN ValueOfDigits(Tail(Tail(j_in.exp)))
    ELSE ValueOfDigits(Tail(j_in.exp))

LiteralExponentNonNegative ==
    \/ j_in.exp = << >>
    \/ j_in.exp[2] # "-"
    \/ LiteralExponent = 0

\* The value the literal denotes, int * 10^e + fraction * 10^(e - d) for a
\* fraction of d <= e digits, saturated just above cap.
LiteralValue(cap) ==
    LET e == LiteralExponent
        d == IF j_in.frac = << >> THEN 0 ELSE Len(FractionDigits)
        f == IF j_in.frac = << >> THEN 0 ELSE ValueOfDigits(FractionDigits)
        a == TimesPow10(ValueOfDigits(j_in.int), e, cap)
        b == TimesPow10(f, e - d, cap)
    IN  IF a + b > cap THEN cap + 1 ELSE a + b

\* An unsigned literal whose fraction has at most as many digits as its
\* non-negative exponent, and whose value fits the target type.
JFittingLiteral ==
    /\ j_pc = "done" /\ j_in.name = "num"
    /\ j_in.ty \in UnsignedTypes /\ j_in.sign = << >>
    /\ LiteralExponentNonNegative
    /\ (j_in.frac # << >> => Len(FractionDigits) <= LiteralExponent)
    /\ LiteralValue(JUnsignedMax(j_in.ty)) <= JUnsignedMax(j_in.ty)

\* The significand of the literal is zero: the integer part and every digit
\* of the fraction.
ZeroSignificand ==
    /\ ValueOfDigits(j_in.int) = 0
    /\ (j_in.frac # << >> => ValueOfDigits(FractionDigits) = 0)

\* ------------------------------------------------------------------------
\* C28: a literal of the number grammar whose fraction digits number at most
\* its non-negative exponent and whose value v fits the unsigned target type
\* parses to v, never to the overflow error; a zero significand with a large
\* exponent is included.
C28_FittingValueParses ==
    JFittingLiteral
    => /\ j_res.ok
       /\ j_res.v = LiteralValue(JUnsignedMax(j_in.ty))

\* "0e5" parsed into u16: the value is 0, yet 10^5 lies beyond the power table
\* and 10.checked_pow(5) fails, so the parse returns the overflow error.
C28_ZeroWithLargeExponent ==
    /\ JFittingLiteral /\ j_in.ty = "u16"
    /\ j_p.s = << "0", "e", "5" >>
    /\ LiteralValue(JUnsignedMax(j_in.ty)) = 0
    /\ ~j_res.ok /\ j_res.err = "Overflow"

\* With a non-zero significand a fitting value parses to itself; with a zero
\* significand the parse returns 0 or the overflow error, the latter exactly
\* when 10^(e - exp) does not fit the target type.
FittingNonZeroParses ==
    JFittingLiteral
    => IF ~ZeroSignificand
       THEN j_res.ok /\ j_res.v = LiteralValue(JUnsignedMax(j_in.ty))
       ELSE IF LiteralExponent = 0
                 \/ TimesPow10(1, LiteralExponent - j_res.parts.m.exp,
                               JUnsignedMax(j_in.ty)) <= JUnsignedMax(j_in.ty)
            THEN j_res.ok /\ j_res.v = 0
            ELSE ~j_res.ok /\ j_res.err = "Overflow"

\* "0.5e5" parsed into u16: a fitting value whose exponent lies beyond the
\* power table parses to 50000.
LargeExponentParsed ==
    /\ JFittingLiteral /\ j_in.ty = "u16"
    /\ j_p.s = << "0", ".", "5", "e", "5" >>
    /\ j_res.ok /\ j_res.v = 50000

\* An integer method of the key decoder has run on the key.
KeyIntegerDecoded ==
    /\ j_pc = "done" /\ j_in.name = "key"
    /\ j_res.method = "decode_" \o j_in.ty

\* ------------------------------------------------------------------------
\* C29: decoding an object key as an integer succeeds only when the whole
\* contents of the key form one number: a key whose contents are a number
\* followed by further bytes is rejected with an error.
C29_TrailingBytesRejected ==
    (KeyIntegerDecoded /\ j_in.tail # << >>) => ~j_res.ok

\* The key "7x" decoded as u8: the parse stops at the x, the rest of the
\* contents is never looked at and the key decodes to 7, as the key "7" does.
C29_TrailingBytesAccepted ==
    /\ KeyIntegerDecoded /\ j_in.ty = "u8" /\ j_in.via = "Borrowed"
    /\ j_p.s = << "\"", "7", "x", "\"", ":" >>
    /\ j_res.ok /\ j_res.v = 7
    /\ j_p.pos = 4

\* What the visitor does: the number at the start of the contents is
\* decoded, with or without bytes after it, and the parser is left after the
\* closing quote.
KeyPrefixDecoded ==
    KeyIntegerDecoded
    => /\ j_res.ok
       /\ j_res.v = j_in.k
       /\ j_p.pos = Len(j_p.s) - 1

\* The key "7 " from the scratch buffer decodes to 7.
SpaceAfterNumberAccepted ==
    /\ KeyIntegerDecoded /\ j_in.via = "Scratch" /\ j_in.k = 7
    /\ j_in.tail = << " " >>
    /\ j_res.ok /\ j_res.v = 7

\* ------------------------------------------------------------------------
\* C30: after decode_pack has read a prefix announcing n payload bytes and
\* the pack decoder has been ended, the underlying reader stands exactly n
\* bytes after the prefix, whatever the element decoders consumed, and the
\* sibling value is decoded from its own first byte.
C30_PackIsSelfDelimiting ==
    /\ (/\ w_in.name = "pack" /\ w_pc = "ended")
       => w_reader.pos = w_dec.start + w_dec.len
    /\ (/\ w_in.name = "pack" /\ w_pc = "sibling")
       => (w_res.ok /\ w_res.value = w_in.sibling)

\* A pack of two bytes of which the element decoders read one: end leaves the
\* reader on the second payload byte, 33, and the enclosing value decodes it
\* as the u8 1 in place of the sibling 5.
C30_SiblingReadFromPayload ==
    /\ w_in.name = "pack" /\ w_pc = "sibling"
    /\ w_in.payload = << 64, 33 >> /\ w_in.sibling = 5
    /\ w_dec.len = 2 /\ w_dec.read = 1 /\ w_dec.remaining = 1
    /\ w_res.ok /\ w_res.value = 1
    /\ w_reader.pos = w_dec.start + w_dec.len

\* The pack is ended with payload left unread, and the reader stands before
\* the end of the payload.
PackEndedEarly ==
    /\ w_in.name = "pack" /\ w_pc = "ended"
    /\ w_dec.read < w_dec.len
    /\ w_reader.pos = w_dec.start + w_dec.read

\* What end does: the reader stays where the element decoders left it, never
\* beyond the payload, and when they consumed the whole payload the sibling
\* is decoded from its own first byte.
PackEndLeavesReader ==
    /\ (/\ w_in.name = "pack" /\ w_pc \in {"elements", "ended"})
       => /\ w_reader.pos = w_dec.start + w_dec.read
          /\ w_dec.read + w_dec.remaining = w_dec.len
          /\ w_dec.len = Len(w_in.payload)
    /\ (/\ w_in.name = "pack" /\ w_pc = "sibling" /\ w_dec.read = w_dec.len)
       => (w_res.ok /\ w_res.value = w_in.sibling)

\* A pack whose whole payload was consumed, followed by its sibling.
WholePackThenSibling ==
    /\ w_in.name = "pack" /\ w_pc = "sibling"
    /\ w_dec.len = 3 /\ w_dec.read = 3
    /\ w_in.sibling = 200 /\ w_res.ok /\ w_res.value = 200

====
